---- MODULE Spec2Model ----
(***************************************************************************)
(* A model of the version chain and the lazy item of cosdata               *)
(* (src/src/models/prob_lazy_load/lazy_item.rs) and of the serializer      *)
(* tests that exercise them (src/src/models/serializer/hnsw/tests.rs).     *)
(*                                                                         *)
(* A lazy item is a heap object; here it is a natural number (its address) *)
(* and its fields are functions over the addresses.                        *)
(***************************************************************************)
EXTENDS Integers, Sequences, FiniteSets, TLC

\* ------------------------------------------------------------------------
\* Bounds of the model.

\* Nodes a run may add to the version chain of the root.
MaxVersions == 21

\* ------------------------------------------------------------------------
\* Program constants.

\* ptr::null_mut(): the address that is no lazy item.
Null == -1

\* ProbLazyItemArray<ProbNode, 8>: the capacity of a versions array.
VersionsCap == 8

\* Width of version_number and of the relative version numbers (u16).
U16Bits == 16

U16Mod == 2 ^ U16Bits

\* ------------------------------------------------------------------------
\* State.

VARIABLES
    numbering,      \* the step between the version numbers the chain receives
    count,          \* lazy items added to the chain so far (the root is item 0)
    version_number, \* ReadyState.version_number of every lazy item
    version_id,     \* ReadyState.version_id of every lazy item
    versions,       \* ProbNode.versions of every lazy item: VersionsCap slots
    op,             \* the call that has just ended and what it returned
    xin,            \* largest_power_of_4_below: the argument
    xout,           \* largest_power_of_4_below: the result (Null before the call)
    wr,             \* the writer thread: where its add_version call stands
    rd,             \* the reader thread: where its get_version call stands
    pinned,         \* the version number the reader asks for
    firstHit,       \* the item the reader's first successful lookup returned
    item_state,     \* ProbLazyItem.state of every handle: the boxed state
    records,        \* the index file: the data serialized at every offset
    registry,       \* the cache: the data of the item loaded for every offset
    tg,             \* a try_get_data call: where it stands
    file_offset,    \* ReadyState.file_offset of every lazy item
    hnsw_level,     \* ProbNode.hnsw_level of every node
    parent,         \* ProbNode.parent of every node
    child,          \* ProbNode.child of every node
    neighbors,      \* ProbNode.neighbors of every node: NeighborsCount slots
    links,          \* links set between the nodes so far
    disk,           \* the index files: the records written, by file and offset
    loaded,         \* the outcome of cache.load_item on the root's locator
    slots,          \* ProbNode.neighbors of the node add_neighbor is called on
    metric,         \* the metric of the distances given to add_neighbor
    offered,        \* the distances given to add_neighbor so far, in order
    request,        \* a create-vector request: the entries of its JSON object
    decoded,        \* what deserializing the request returned
    queries,        \* the query vectors of an ANN query call
    collection,     \* the collection queried and the metadata filter given
    running,        \* whether the parallel iterator of the batch is running
    finished,       \* the per-query tasks that ended, in the order they ended
    answer,         \* what the ANN query call returned
    writers,        \* threads calling add_version on one root: where each stands
    results,        \* what the add_version calls of the threads returned
    state_ptr,      \* ProbLazyItem.state of one item: the box the pointer names
    heap,           \* the state boxes: made or not, and how often freed
    setters,        \* threads calling set_state on the item: where each stands
    reader,         \* a thread reading the item's state: where it stands
    faults,         \* the reads that went through a freed box
    dropped,        \* whether the item was dropped
    cells,          \* neighbor slots of a node written by several threads: the pointers
    triples,        \* the heap of neighbor triples: live or not, and the distance held
    callers,        \* threads calling add_neighbor on the node: where each stands
    given,          \* the distances of the add_neighbor calls begun
    marks,          \* what went wrong in the calls so far
    cache_map,      \* the map of the cache: file locator -> lazy item, if any
    shard_locks,    \* the locks of the cache, one per shard: the thread holding it
    getters,        \* threads in get_object: where each stands
    deserialized,   \* how often the record of each locator was deserialized
    handed,         \* what get_object returned, per locator
    boot,           \* an init_hnsw_index_for_collection call: where it stands
    meta,           \* collection.meta: the metadata schema, if any, and the dimension
    collections_map, \* ctx.ain_env.collections_map: the indexes registered
    transaction,    \* the CollectionTransaction the call created, if any
    uploaded,       \* the run_upload calls made: the transaction and the vectors
    current_version, \* collection.current_version
    main_branch,    \* collection.vcs: the tip of the branch "main"
    persisted_version, \* the current version stored in collection.lmdb
    trace           \* the statements of the call that took effect, in order

chainVars == <<numbering, count, version_number, version_id, versions, op>>

powVars == <<xin, xout>>

threadVars == <<wr, rd, pinned, firstHit>>

lazyVars == <<item_state, records, registry, tg>>

graphVars == <<file_offset, hnsw_level, parent, child, neighbors, links, disk, loaded>>

nodeVars == <<slots, metric, offered>>

dtoVars == <<request, decoded>>

queryVars == <<queries, collection, running, finished, answer>>

raceVars == <<writers, results>>

boxVars == <<state_ptr, heap, setters, reader, faults, dropped>>

nbrVars == <<cells, triples, callers, given, marks>>

cacheVars == <<cache_map, shard_locks, getters, deserialized, handed>>

bootVars == <<boot, meta, collections_map, transaction, uploaded, current_version,
              main_branch, persisted_version, trace>>

moreVars == <<nodeVars, dtoVars, queryVars, raceVars, boxVars, nbrVars, cacheVars, bootVars>>

\* What add_neighbor, the deserializers and the ANN queries leave alone.
restVars == <<chainVars, powVars, threadVars, lazyVars, graphVars>>

\* What the threads on one item's state leave alone.
notBoxVars == <<restVars, nodeVars, dtoVars, queryVars, raceVars, nbrVars, cacheVars, bootVars>>

\* What the threads on one node's neighbor slots leave alone.
notNbrVars == <<restVars, nodeVars, dtoVars, queryVars, raceVars, boxVars, cacheVars, bootVars>>

\* What the threads in get_object leave alone.
notCacheVars == <<restVars, nodeVars, dtoVars, queryVars, raceVars, boxVars, nbrVars,
                  bootVars>>

\* What init_hnsw_index_for_collection leaves alone.
notBootVars == <<restVars, nodeVars, dtoVars, queryVars, raceVars, boxVars, nbrVars,
                 cacheVars>>

\* What the calls on the chain, one at a time, leave alone.
notChainVars == <<powVars, threadVars, lazyVars, graphVars, moreVars>>

\* What largest_power_of_4_below leaves alone.
notPowVars == <<chainVars, threadVars, lazyVars, graphVars, moreVars>>

\* What the writer and the reader thread leave alone.
notThreadVars == <<op, powVars, lazyVars, graphVars, moreVars>>

\* What the calls on lazy item handles leave alone.
notLazyVars == <<chainVars, powVars, threadVars, graphVars, moreVars>>

\* What building, serializing and loading a graph leave alone, the version
\* numbers, ids and versions arrays apart.
notGraphVars == <<numbering, count, op, powVars, threadVars, lazyVars, moreVars>>

vars == <<numbering, count, version_number, version_id, versions, op, xin, xout,
          wr, rd, pinned, firstHit, item_state, records, registry, tg,
          file_offset, hnsw_level, parent, child, neighbors, links, disk, loaded,
          slots, metric, offered, request, decoded,
          queries, collection, running, finished, answer, writers, results,
          state_ptr, heap, setters, reader, faults, dropped,
          cells, triples, callers, given, marks,
          cache_map, shard_locks, getters, deserialized, handed>>

Items == 0 .. MaxVersions

Slots == 0 .. (VersionsCap - 1)

root == 0

\* ------------------------------------------------------------------------
\* largest_power_of_4_below (lazy_item.rs 29-46)

RECURSIVE BitLength(_)
\* Number of significant bits of x: 16 - x.leading_zeros() for a u16.
BitLength(x) == IF x = 0 THEN 0 ELSE 1 + BitLength(x \div 2)

\* u16::leading_zeros
leading_zeros(x) == U16Bits - BitLength(x)

\* A wrong bit position: 16 - leading_zeros instead of 15 - leading_zeros.
largest_power_of_4_below_off_by_one(x) == (U16Bits - leading_zeros(x)) \div 2

\* Base 2 instead of base 4: the halving is forgotten.
largest_power_of_4_below_log2(x) == (U16Bits - 1) - leading_zeros(x)

\* Always the first slot: the chain degenerates into a list.
largest_power_of_4_below_zero(x) == 0

\* The bit position is divided by 4 instead of 2: base 16.
largest_power_of_4_below_base16(x) == ((U16Bits - 1) - leading_zeros(x)) \div 4

\* msb_position / 2, msb_position = 15 - x.leading_zeros(). The caller has
\* checked x # 0 (the assert_ne of line 41 is modelled at the call site).
largest_power_of_4_below(x) == ((U16Bits - 1) - leading_zeros(x)) \div 2

\* ------------------------------------------------------------------------
\* ProbLazyItemArray: a fixed array of VersionsCap atomic pointers.

EmptyArray == [i \in Slots |-> Null]

RECURSIVE FirstEmpty(_, _)
\* The first empty slot at or after slot i; VersionsCap when there is none.
FirstEmpty(a, i) ==
    IF i = VersionsCap \/ a[i] = Null THEN i ELSE FirstEmpty(a, i + 1)

\* len(): the number of leading occupied slots.
ArrayLen(a) == FirstEmpty(a, 0)

\* get(i): the item of slot i, if any.
ArrayGet(a, i) == IF i \in Slots THEN a[i] ELSE Null

\* last(): the item of the last occupied slot, if any.
ArrayLast(a) == IF ArrayLen(a) = 0 THEN Null ELSE a[ArrayLen(a) - 1]

\* push(item): the first empty slot takes the item; a full array is left alone.
ArrayPush(a, item) ==
    IF ArrayLen(a) = VersionsCap THEN a
    ELSE [a EXCEPT ![ArrayLen(a)] = item]

\* ------------------------------------------------------------------------
\* get_latest_version (lazy_item.rs 263-288)

\* The last slot is counted as len - 1 versions instead of 4 ^ (len - 1).
LatestRelativeLinear(len, rel) == ((len - 1) + rel) % U16Mod

\* (1u16 << ((versions.len() as u8 - 1) * 2)) + relative_local_version_number
LatestRelative(len, rel) == (2 ^ ((len - 1) * 2) + rel) % U16Mod

RECURSIVE get_latest_version(_, _)
\* <<the terminus of the chain of `this`, its distance from `this`>>
get_latest_version(V, this) ==
    LET last == ArrayLast(V[this]) IN
    IF last # Null
    THEN LET r == get_latest_version(V, last) IN
         <<r[1], LatestRelative(ArrayLen(V[this]), r[2])>>
    ELSE <<this, 0>>

\* ------------------------------------------------------------------------
\* add_version, add_version_inner (lazy_item.rs 216-261)

\* target_relative_version_number - self_relative_version_number, in u16
TargetDiff(target, self) == (target - self) % U16Mod

\* The duplicate test is dropped.
IsDuplicateNever(target_diff) == FALSE

\* if target_diff == 0 { return Ok(Err(this)) }
IsDuplicate(target_diff) == target_diff = 0

\* The hop is 2 * index instead of 4 ^ index.
NextRelativeLinear(self, index) == (self + 2 * index) % U16Mod

\* The hop is one power of 4 too long: 4 ^ (index + 1).
NextRelativeOvershoot(self, index) == (self + 2 ^ (2 * (index + 1))) % U16Mod

\* self_relative_version_number + (1 << (2 * index))
NextRelative(self, index) == (self + 2 ^ (2 * index)) % U16Mod

\* if let Some(existing_version) = versions.get(index as usize)
SlotTaken(existing) == existing # Null

\* The new node is stored one slot too far, leaving a gap.
AppendVersionSkip(a, index, version) ==
    IF index + 1 \in Slots THEN [a EXCEPT ![index + 1] = version] ELSE a

\* The new node is stored over the first slot.
AppendVersionOverFirst(a, index, version) == [a EXCEPT ![0] = version]

\* The new node is stored at the index computed before, whatever is there.
AppendVersionAtIndex(a, index, version) == [a EXCEPT ![index] = version]

\* versions.push(version): the index is only asserted (debug_assert_eq, line
\* 257), the push takes the first empty slot.
AppendVersion(a, index, version) == ArrayPush(a, version)

RECURSIVE add_version_inner(_, _, _, _, _, _)
\* The call on `this` with the versions arrays V. The result names the
\* outcome (Ok: pushed onto `node`; Err: `node` is the duplicate; Panic: the
\* assert_ne of largest_power_of_4_below fired), the arrays afterwards,
\* whether a u16 subtraction wrapped, whether the debug assertion of line
\* 257 held, the number of nodes the descent visited, and the largest slot
\* index it computed (Null when it computed none).
add_version_inner(V, this, version, self, target, visited) ==
    LET target_diff == TargetDiff(target, self)
        index == largest_power_of_4_below(target_diff)
        existing == ArrayGet(V[this], index)
    IN
    IF IsDuplicate(target_diff)
    THEN [kind |-> "Err", node |-> this, versions |-> V,
          wrapped |-> target < self, lenIsIndex |-> TRUE, visited |-> visited,
          index |-> Null]
    ELSE IF target_diff = 0
    THEN [kind |-> "Panic", node |-> this, versions |-> V,
          wrapped |-> target < self, lenIsIndex |-> TRUE, visited |-> visited,
          index |-> Null]
    ELSE IF SlotTaken(existing)
    THEN LET r == add_version_inner(V, existing, version,
                                    NextRelative(self, index), target, visited + 1)
         IN [r EXCEPT !.wrapped = r.wrapped \/ target < self,
                      !.index = IF r.index > index THEN r.index ELSE index]
    ELSE [kind |-> "Ok", node |-> this,
          versions |-> [V EXCEPT ![this] = AppendVersion(V[this], index, version)],
          wrapped |-> target < self,
          lenIsIndex |-> ArrayLen(V[this]) = index,
          visited |-> visited,
          index |-> index]

\* A stale terminus: the new node is aimed at the terminus itself.
TargetRelativeStale(latest) == latest

\* The new node is aimed two past the terminus.
TargetRelativeSkip(latest) == (latest + 2) % U16Mod

\* latest_local_version_number + 1
TargetRelative(latest) == (latest + 1) % U16Mod

add_version(V, this, version) ==
    add_version_inner(V, this, version, 0,
                      TargetRelative(get_latest_version(V, this)[2]), 1)

\* ------------------------------------------------------------------------
\* get_version (lazy_item.rs 299-330)

\* The scan stops one slot early: <= instead of <.
ScanStopsOnEqual(version, next_number) == version <= next_number

\* if version < unsafe { &*next }.get_current_version_number()
ScanStops(version, next_number) == version < next_number

RECURSIVE ScanSlots(_, _, _, _, _)
\* The while loop of lines 320-327: the slot to descend into.
ScanSlots(a, N, version, prev, i) ==
    LET next == ArrayGet(a, i) IN
    IF next = Null THEN prev
    ELSE IF ScanStops(version, N[next]) THEN prev
    ELSE ScanSlots(a, N, version, next, i + 1)

RECURSIVE get_version(_, _, _, _, _)
\* <<the item found or Null, the number of nodes visited>>
get_version(V, N, this, version, visited) ==
    IF version < N[this] THEN <<Null, visited>>
    ELSE IF version = N[this] THEN <<this, visited>>
    ELSE IF ArrayGet(V[this], 0) = Null THEN <<Null, visited>>
    ELSE get_version(V, N, ScanSlots(V[this], N, version, ArrayGet(V[this], 0), 1),
                     version, visited + 1)

\* ------------------------------------------------------------------------
\* The version chain test (tests.rs 398-493) and the structure of a chain.

RECURSIVE validate_lazy_item_versions(_, _, _, _)
\* tests.rs 398-413: every occupied slot i of the item is 4^i ahead of it,
\* and so on below every slot. The subtraction is a u16 one: it must not wrap.
validate_lazy_item_versions(V, N, item, number) ==
    \A i \in 0 .. (ArrayLen(V[item]) - 1) :
        LET version == ArrayGet(V[item], i) IN
        /\ N[version] >= number
        /\ N[version] - number = 4 ^ i
        /\ validate_lazy_item_versions(V, N, version, N[version])

\* The items that hold `n` in a slot.
Owners(V, n) == {p \in Items : \E i \in Slots : V[p][i] = n}

RECURSIVE HopsFromRoot(_, _)
\* Slot hops from the root to item n (n is chained: it has one owner).
HopsFromRoot(V, n) ==
    IF n = root THEN 0
    ELSE 1 + HopsFromRoot(V, CHOOSE p \in Owners(V, n) : TRUE)

RECURSIVE RelativeOf(_, _)
\* The relative version number of item n: the sum of the hops 4^i on its path.
RelativeOf(V, n) ==
    IF n = root THEN 0
    ELSE LET p == CHOOSE q \in Owners(V, n) : TRUE
             i == CHOOSE j \in Slots : V[p][j] = n
         IN RelativeOf(V, p) + 4 ^ i

\* The items of the chain: the root and what was added to it.
Chained == 0 .. count

\* ------------------------------------------------------------------------
\* The version controller (not under src/): it hands out the numbers of a
\* branch in order, and the hash of a number.

\* The version numbers a root may carry.
FirstVersions == {0, 2}

\* A chain receives every version (1) or every second one (2).
Numberings == {1, 2}

\* VersionControl::generate_hash: a number's hash, different numbers apart.
generate_hash(number) == number * 31 + 7

\* The number of the k-th item added to the chain.
NumberOf(k) == version_number[root] + numbering * k

\* ------------------------------------------------------------------------
\* The chain, called one call at a time.

NoOp == [call |-> "none"]

PowIdle == xin = 0 /\ xout = Null

WriterIdle == [pc |-> "idle"]

ReaderIdle == [pc |-> "idle"]

ThreadsIdle ==
    /\ wr = WriterIdle
    /\ rd = ReaderIdle
    /\ pinned = 0
    /\ firstHit = Null

\* Handles a run may create with new, new_pending and new_from_state.
MaxHandles == 2

Handles == 0 .. (MaxHandles - 1)

\* The file offsets a locator may name.
Offsets == {0, 1}

\* The node made for an offset: its data, told apart from the offset.
DataAt(offset) == offset + 10

\* No handle yet at this address.
NoState == [kind |-> "None"]

\* ProbLazyItemState::Ready(ReadyState { data, file_offset, .. })
ReadyOf(data, offset) == [kind |-> "Ready", data |-> data, offset |-> offset]

\* ProbLazyItemState::Pending(FileIndex { offset, .. })
PendingOf(offset) == [kind |-> "Pending", offset |-> offset]

\* The values of ProbLazyItemState<T>.
ItemStates ==
    {ReadyOf(DataAt(o), o) : o \in Offsets} \cup {PendingOf(o) : o \in Offsets}

TgIdle == [pc |-> "idle"]

LazyIdle ==
    /\ item_state = [h \in Handles |-> NoState]
    /\ records = [o \in Offsets |-> Null]
    /\ registry = [o \in Offsets |-> Null]
    /\ tg = TgIdle

\* ProbNode::new(.., 8, ..): the neighbor slots of a node of the tests.
NeighborsCount == 8

NeighborSlots == 0 .. (NeighborsCount - 1)

\* An empty neighbor slot (a null AtomicPtr).
NoNeighbor == [node |-> Null]

NotLoaded == [result |-> "none"]

GraphIdle ==
    /\ file_offset = [n \in Items |-> 0]
    /\ hnsw_level = [n \in Items |-> 0]
    /\ parent = [n \in Items |-> Null]
    /\ child = [n \in Items |-> Null]
    /\ neighbors = [n \in Items |-> [i \in NeighborSlots |-> NoNeighbor]]
    /\ links = 0
    /\ disk = {}
    /\ loaded = NotLoaded

\* No add_neighbor call was made.
NodeIdle ==
    /\ slots = <<>>
    /\ metric = "CosineSimilarity"
    /\ offered = <<>>

\* No request was received.
NotDecoded == [via |-> "none"]

DtoIdle ==
    /\ request = <<>>
    /\ decoded = NotDecoded

\* No query was made.
NoAnswer == [kind |-> "none"]

QueryIdle ==
    /\ queries = <<>>
    /\ collection = [has_schema |-> FALSE, filter |-> "none"]
    /\ running = FALSE
    /\ finished = <<>>
    /\ answer = NoAnswer

\* No thread calls add_version.
RaceIdle ==
    /\ writers = <<>>
    /\ results = {}

\* No item whose state boxes are followed.
BoxIdle ==
    /\ state_ptr = Null
    /\ heap = <<>>
    /\ setters = <<>>
    /\ reader = [pc |-> "idle"]
    /\ faults = {}
    /\ dropped = FALSE

\* No node whose neighbor slots several threads write.
NbrIdle ==
    /\ cells = <<>>
    /\ triples = <<>>
    /\ callers = <<>>
    /\ given = [before |-> <<>>, during |-> <<>>]
    /\ marks = {}

\* No cache whose get_object is followed.
CacheIdle ==
    /\ cache_map = <<>>
    /\ shard_locks = <<>>
    /\ getters = <<>>
    /\ deserialized = <<>>
    /\ handed = {}

\* No init_hnsw_index_for_collection call that is followed.
BootIdle ==
    /\ boot = <<>>
    /\ meta = <<>>
    /\ collections_map = {}
    /\ transaction = <<>>
    /\ uploaded = <<>>
    /\ current_version = <<>>
    /\ main_branch = <<>>
    /\ persisted_version = <<>>
    /\ trace = <<>>

MoreIdle ==
    /\ NodeIdle /\ DtoIdle /\ QueryIdle /\ RaceIdle /\ BoxIdle /\ NbrIdle /\ CacheIdle
    /\ BootIdle

ChainInit ==
    /\ numbering \in Numberings
    /\ count = 0
    /\ \E first \in FirstVersions :
          /\ version_number = [n \in Items |-> IF n = root THEN first ELSE 0]
          /\ version_id = [n \in Items |-> IF n = root THEN generate_hash(first) ELSE 0]
    /\ versions = [n \in Items |-> EmptyArray]
    /\ op = NoOp

\* ProbLazyItem::new (lazy_item.rs 104-122): the Ready state's fields.
NewItem(n, id, number) ==
    /\ version_number' = [version_number EXCEPT ![n] = number]
    /\ version_id' = [version_id EXCEPT ![n] = id]

\* let next_version = ProbLazyItem::new(.., hash, i, ..);
\* ProbLazyItem::add_version(root, next_version, &cache)   (tests.rs 457-471)
AddVersion ==
    /\ op = NoOp
    /\ count < MaxVersions
    /\ LET new == count + 1
           r == add_version(versions, root, new)
       IN
       /\ NewItem(new, generate_hash(NumberOf(new)), NumberOf(new))
       /\ versions' = r.versions
       /\ count' = IF r.kind = "Ok" THEN new ELSE count
       /\ op' = [call |-> "add_version", version |-> new, target |-> new,
                 kind |-> r.kind, node |-> r.node, wrapped |-> r.wrapped,
                 lenIsIndex |-> r.lenIsIndex, visited |-> r.visited,
                 index |-> r.index]
    /\ UNCHANGED <<numbering, notChainVars>>

\* ProbLazyItem::add_version_inner(root, version, 0, target, &cache), called
\* with a target that is in the chain or next to its terminus.
AddVersionInner ==
    /\ op = NoOp
    /\ count < MaxVersions
    /\ \E target \in 0 .. (count + 1) :
          LET new == count + 1
              r == add_version_inner(versions, root, new, 0, target, 1)
          IN
          /\ NewItem(new, generate_hash(NumberOf(new)), NumberOf(new))
          /\ versions' = r.versions
          /\ count' = IF r.kind = "Ok" THEN new ELSE count
          /\ op' = [call |-> "add_version_inner", version |-> new, target |-> target,
                    kind |-> r.kind, node |-> r.node, wrapped |-> r.wrapped,
                    lenIsIndex |-> r.lenIsIndex, visited |-> r.visited,
                    index |-> r.index]
    /\ UNCHANGED <<numbering, notChainVars>>

\* The version numbers a reader may ask for.
Targets == 0 .. (NumberOf(count) + 2)

\* ProbLazyItem::get_version(root, version, &cache)
GetVersion ==
    /\ op = NoOp
    /\ \E version \in Targets :
          LET r == get_version(versions, version_number, root, version, 1) IN
          op' = [call |-> "get_version", target |-> version,
                 node |-> r[1], visited |-> r[2]]
    /\ UNCHANGED <<numbering, count, version_number, version_id, versions, notChainVars>>

\* ProbLazyItem::get_latest_version(root, &cache)
GetLatestVersion ==
    /\ op = NoOp
    /\ LET r == get_latest_version(versions, root) IN
       op' = [call |-> "get_latest_version", node |-> r[1], relative |-> r[2]]
    /\ UNCHANGED <<numbering, count, version_number, version_id, versions, notChainVars>>

\* The caller takes the result; the next call may start.
Return ==
    /\ op # NoOp
    /\ op' = NoOp
    /\ UNCHANGED <<numbering, count, version_number, version_id, versions, notChainVars>>

Init == ChainInit /\ PowIdle /\ ThreadsIdle /\ LazyIdle /\ GraphIdle /\ MoreIdle

Next == AddVersion \/ AddVersionInner \/ GetVersion \/ GetLatestVersion \/ Return

Spec == Init /\ [][Next]_vars

\* ------------------------------------------------------------------------
\* Claims about the version chain.

\* The k-th item added carries the root's number plus k.
Consecutive == numbering = 1

\* C1. Version-chain spacing: when the k-th added node carries the number
\* V0 + k, then after every call every occupied slot i of every node
\* reachable from the root holds a node whose version number is 4^i ahead
\* of its owner's (the test's validate_lazy_item_versions succeeds).
C1_VersionChainSpacing ==
    Consecutive =>
        validate_lazy_item_versions(versions, version_number, root, version_number[root])

\* A chain deep enough to have a third slot on the root, and a slot below it.
C1_Witness ==
    /\ Consecutive
    /\ op.call = "add_version"
    /\ ArrayLen(versions[root]) >= 3
    /\ ArrayLen(versions[versions[root][2]]) >= 2

\* C2. Lookup completeness: on a chain holding the consecutive numbers
\* V0 .. V0 + N, get_version(root, t) is the chained node numbered t for
\* every t in that range, and None for every t below or above it.
C2_LookupCompleteness ==
    Consecutive =>
        \A t \in Targets :
            LET found == get_version(versions, version_number, root, t, 1)[1] IN
            IF version_number[root] <= t /\ t <= version_number[root] + count
            THEN found \in Chained /\ version_number[found] = t
            ELSE found = Null

\* A lookup that went through the root's third slot and found its target,
\* after lookups below and above the range are possible too.
C2_Witness ==
    /\ Consecutive
    /\ version_number[root] > 0
    /\ op.call = "get_version"
    /\ op.node # Null
    /\ op.target > version_number[root] + 16
    /\ op.visited >= 3

\* Every occupied slot of every array has only occupied slots before it.
GapFree(V) ==
    \A n \in Items : \A i \in Slots \ {0} : V[n][i] # Null => V[n][i - 1] # Null

\* C4. Append-only slots: a slot is occupied only if the slots before it
\* are, a step never shortens a versions array and lengthens it by one at
\* most (one push), and an occupied slot keeps the node it references.
C4_AppendOnlySlots ==
    [][ versions' # versions =>
          /\ GapFree(versions')
          /\ \A n \in Items :
                /\ ArrayLen(versions'[n]) \in
                      {ArrayLen(versions[n]), ArrayLen(versions[n]) + 1}
                /\ \A i \in Slots :
                      versions[n][i] # Null => versions'[n][i] = versions[n][i]
          /\ Cardinality({n \in Items : versions'[n] # versions[n]}) = 1 ]_vars

\* A push onto a node that is not the root and already has a slot.
C4_Witness ==
    /\ op.call = "add_version"
    /\ op.kind = "Ok"
    /\ op.node # root
    /\ ArrayLen(versions[op.node]) >= 2

\* The item is in no slot of any versions array.
Unlinked(V, n) == \A p \in Items : \A i \in Slots : V[p][i] # n

\* C6. Duplicate insertion: a call of add_version_inner whose target is a
\* position the chain already holds ends at the node of that position with
\* a target difference of 0; it returns Err with that node, links the
\* offered node nowhere and changes no versions array. Err is returned in
\* no other case.
C6_DuplicateInsertion ==
    [][ op'.call = "add_version_inner" /\ op' # op =>
          /\ op'.target <= count <=> op'.kind = "Err"
          /\ op'.kind = "Err" =>
                /\ op'.node \in Chained
                /\ RelativeOf(versions, op'.node) = op'.target
                /\ versions' = versions
                /\ Unlinked(versions', op'.version) ]_vars

\* A duplicate found three nodes down the chain.
C6_Witness ==
    /\ op.call = "add_version_inner"
    /\ op.kind = "Err"
    /\ op.visited >= 3
    /\ op.node # root

RECURSIVE CeilLog4(_)
\* The least c with 4^c >= m, for m >= 1.
CeilLog4(m) == IF m <= 1 THEN 0 ELSE 1 + CeilLog4((m + 3) \div 4)

\* The root and the nodes added to it.
TotalVersions == count + 1

\* C9 as stated. Chain depth bound: every version of the chain is at most
\* ceil(log4(total_versions)) slot hops from the root.
C9_DepthBoundStated ==
    \A n \in Chained : HopsFromRoot(versions, n) <= CeilLog4(TotalVersions)

\* C9, amended. Every version of the chain is at most
\* 3 * ceil(log4(total_versions)) slot hops from the root, the root counted
\* among the versions: a hop of 4^i may be taken up to three times.
C9_DepthBound ==
    \A n \in Chained : HopsFromRoot(versions, n) <= 3 * CeilLog4(TotalVersions)

\* A version that is six hops away (15 = 4 + 4 + 4 + 1 + 1 + 1).
C9_Witness ==
    \E n \in Chained : HopsFromRoot(versions, n) = 6 /\ CeilLog4(TotalVersions) = 2

\* ------------------------------------------------------------------------
\* largest_power_of_4_below on every u16.

\* What xout holds after the assert_ne of line 41 has fired.
Panicked == 0 - 2

ChainIdle ==
    /\ numbering = 1
    /\ count = 0
    /\ version_number = [n \in Items |-> 0]
    /\ version_id = [n \in Items |-> generate_hash(0)]
    /\ versions = [n \in Items |-> EmptyArray]
    /\ op = NoOp

PowInit ==
    /\ xin \in 0 .. (U16Mod - 1)
    /\ xout = Null

\* largest_power_of_4_below(xin)
LargestPowerOf4Below ==
    /\ xout = Null
    /\ xout' = IF xin = 0 THEN Panicked ELSE largest_power_of_4_below(xin)
    /\ UNCHANGED <<xin, notPowVars>>

PowSpecInit == ChainIdle /\ PowInit /\ ThreadsIdle /\ LazyIdle /\ GraphIdle /\ MoreIdle

PowSpec == PowSpecInit /\ [][LargestPowerOf4Below]_vars

\* C5. largest_power_of_4_below correctness: for every x with
\* 1 <= x < 65536 the result r satisfies 4^r <= x < 4^(r+1).
C5_LargestPowerOf4Below ==
    (xout # Null /\ 1 <= xin /\ xin < U16Mod) =>
        (4 ^ xout <= xin /\ xin < 4 ^ (xout + 1))

\* The call on the largest u16: 4^7 <= 65535 < 4^8.
C5_Witness == xin = U16Mod - 1 /\ xout = 7

\* ------------------------------------------------------------------------
\* One writer thread calling add_version and one reader thread calling
\* get_version on the same root, interleaved at the atomic operations on
\* the versions arrays.

\* Nodes the writer may add while the reader runs.
MaxConcVersions == 6

\* The version numbers the reader may be pinned to.
PinnedVersions == 0 .. (2 + 2 * MaxConcVersions + 1)

ConcInit ==
    /\ ChainInit
    /\ wr = WriterIdle
    /\ rd = ReaderIdle
    /\ pinned \in PinnedVersions
    /\ firstHit = Null

\* add_version is entered: the new item exists (ProbLazyItem::new), the
\* descent of get_latest_version_inner starts at the root.
WriterStart ==
    /\ wr.pc = "idle"
    /\ count < MaxConcVersions
    /\ NewItem(count + 1, generate_hash(NumberOf(count + 1)), NumberOf(count + 1))
    /\ wr' = [pc |-> "latest", version |-> count + 1, this |-> root, latest |-> 0]
    /\ UNCHANGED <<numbering, count, versions, rd, pinned, firstHit, notThreadVars>>

\* get_latest_version_inner on wr.this: versions.last() is followed, or the
\* terminus is reached and add_version_inner starts at the root.
WriterLatest ==
    /\ wr.pc = "latest"
    /\ LET last == ArrayLast(versions[wr.this]) IN
       IF last # Null
       THEN wr' = [wr EXCEPT !.this = last,
                             !.latest = LatestRelative(ArrayLen(versions[wr.this]), @)]
       ELSE wr' = [pc |-> "inner", version |-> wr.version, this |-> root,
                   self |-> 0, target |-> TargetRelative(wr.latest)]
    /\ UNCHANGED <<numbering, count, version_number, version_id, versions,
                   rd, pinned, firstHit, notThreadVars>>

\* add_version_inner on wr.this, up to the read of versions.get(index).
WriterInner ==
    /\ wr.pc = "inner"
    /\ LET target_diff == TargetDiff(wr.target, wr.self)
           index == largest_power_of_4_below(target_diff)
           existing == ArrayGet(versions[wr.this], index)
       IN
       IF IsDuplicate(target_diff)
       THEN wr' = [pc |-> "done", kind |-> "Err", node |-> wr.this]
       ELSE IF SlotTaken(existing)
       THEN wr' = [wr EXCEPT !.this = existing, !.self = NextRelative(@, index)]
       ELSE wr' = [pc |-> "push", version |-> wr.version, this |-> wr.this,
                   index |-> index]
    /\ UNCHANGED <<numbering, count, version_number, version_id, versions,
                   rd, pinned, firstHit, notThreadVars>>

\* versions.push(version); Ok(Ok(this))
WriterPush ==
    /\ wr.pc = "push"
    /\ versions' = [versions EXCEPT
                       ![wr.this] = AppendVersion(@, wr.index, wr.version)]
    /\ count' = wr.version
    /\ wr' = [pc |-> "done", kind |-> "Ok", node |-> wr.this]
    /\ UNCHANGED <<numbering, version_number, version_id,
                   rd, pinned, firstHit, notThreadVars>>

\* add_version has returned.
WriterReturn ==
    /\ wr.pc = "done"
    /\ wr' = WriterIdle
    /\ UNCHANGED <<numbering, count, version_number, version_id, versions,
                   rd, pinned, firstHit, notThreadVars>>

\* get_version(root, pinned) is called.
ReaderStart ==
    /\ rd.pc = "idle"
    /\ rd' = [pc |-> "enter", this |-> root]
    /\ UNCHANGED <<numbering, count, version_number, version_id, versions,
                   wr, pinned, firstHit, notThreadVars>>

\* get_version on rd.this, lines 304-320: the two tests on the version
\* number and the read of versions.get(0).
ReaderEnter ==
    /\ rd.pc = "enter"
    /\ IF pinned < version_number[rd.this]
       THEN rd' = [pc |-> "done", node |-> Null]
       ELSE IF pinned = version_number[rd.this]
       THEN rd' = [pc |-> "done", node |-> rd.this]
       ELSE IF ArrayGet(versions[rd.this], 0) = Null
       THEN rd' = [pc |-> "done", node |-> Null]
       ELSE rd' = [pc |-> "scan", this |-> rd.this,
                   prev |-> ArrayGet(versions[rd.this], 0), i |-> 1]
    /\ UNCHANGED <<numbering, count, version_number, version_id, versions,
                   wr, pinned, firstHit, notThreadVars>>

\* One round of the while loop of lines 321-327, or the call of line 329.
ReaderScan ==
    /\ rd.pc = "scan"
    /\ LET next == ArrayGet(versions[rd.this], rd.i) IN
       IF next = Null \/ ScanStops(pinned, version_number[next])
       THEN rd' = [pc |-> "enter", this |-> rd.prev]
       ELSE rd' = [rd EXCEPT !.prev = next, !.i = @ + 1]
    /\ UNCHANGED <<numbering, count, version_number, version_id, versions,
                   wr, pinned, firstHit, notThreadVars>>

\* get_version has returned; the reader remembers its first hit.
ReaderReturn ==
    /\ rd.pc = "done"
    /\ rd' = ReaderIdle
    /\ firstHit' = IF firstHit = Null THEN rd.node ELSE firstHit
    /\ UNCHANGED <<numbering, count, version_number, version_id, versions,
                   wr, pinned, notThreadVars>>

ConcNext ==
    \/ WriterStart \/ WriterLatest \/ WriterInner \/ WriterPush \/ WriterReturn
    \/ ReaderStart \/ ReaderEnter \/ ReaderScan \/ ReaderReturn

ConcSpecInit == ConcInit /\ PowIdle /\ LazyIdle /\ GraphIdle /\ MoreIdle

ConcSpec == ConcSpecInit /\ [][ConcNext]_vars

\* C3. Snapshot stability: once get_version(root, V) has returned a node,
\* every later get_version(root, V) returns that node, whatever add_version
\* calls of later versions ran in between or during the lookup; and a step
\* changes no version number or version id of a chained node and no
\* occupied slot of its versions array.
C3_SnapshotStability ==
    [][ /\ (rd'.pc = "done" /\ firstHit' # Null) => rd'.node = firstHit'
        /\ \A n \in Chained :
              /\ version_number'[n] = version_number[n]
              /\ version_id'[n] = version_id[n]
              /\ \A i \in Slots :
                    versions[n][i] # Null => versions'[n][i] = versions[n][i] ]_vars

\* A second lookup of a version that ends while the writer, which has
\* appended later versions since the first hit, is in the middle of a call.
C3_Witness ==
    /\ rd.pc = "done"
    /\ firstHit # Null
    /\ firstHit # root
    /\ rd.node = firstHit
    /\ count > firstHit + 1
    /\ wr.pc = "push"

\* ------------------------------------------------------------------------
\* Lazy item handles, the index file and the cache (lazy_item.rs 104-214).

\* ProbLazyItem::new(data, .., file_offset): a handle that is Ready.
New ==
    /\ \E h \in Handles, o \in Offsets :
          /\ item_state[h] = NoState
          /\ item_state' = [item_state EXCEPT ![h] = ReadyOf(DataAt(o), o)]
    /\ UNCHANGED <<records, registry, tg, notLazyVars>>

\* ProbLazyItem::new_pending(file_index, ..): a handle that is Pending.
NewPending ==
    /\ \E h \in Handles, o \in Offsets :
          /\ item_state[h] = NoState
          /\ item_state' = [item_state EXCEPT ![h] = PendingOf(o)]
    /\ UNCHANGED <<records, registry, tg, notLazyVars>>

\* ProbLazyItem::new_from_state(state, ..): a handle in the state given.
NewFromState ==
    /\ \E h \in Handles, state \in ItemStates :
          /\ item_state[h] = NoState
          /\ item_state' = [item_state EXCEPT ![h] = state]
    /\ UNCHANGED <<records, registry, tg, notLazyVars>>

\* The state set_state installs: any new_state is accepted and swapped in
\* (lines 145-148); the old box is freed.
InstalledState(old_state, new_state) == new_state

\* ProbLazyItem::set_state(new_state)
SetState ==
    /\ \E h \in Handles, new_state \in ItemStates :
          /\ item_state[h] # NoState
          /\ item_state' = [item_state EXCEPT ![h] = InstalledState(@, new_state)]
    /\ UNCHANGED <<records, registry, tg, notLazyVars>>

\* lazy_item.serialize(..): a Ready item's data is written at its file
\* offset; a Pending item is known by its locator and nothing is written.
Serialize ==
    /\ \E h \in Handles :
          /\ item_state[h].kind = "Ready"
          /\ records' = [records EXCEPT ![item_state[h].offset] = item_state[h].data]
    /\ UNCHANGED <<item_state, registry, tg, notLazyVars>>

\* The item a try_get_data call is on: a handle, or the cache's item of an
\* offset.
HandleItem(h) == <<"handle", h>>

CachedItem(o) == <<"cached", o>>

\* The state the item's pointer leads to. An item of the cache was
\* installed Ready with the data deserialized for its offset.
StateOf(item) ==
    IF item[1] = "handle" THEN item_state[item[2]]
    ELSE ReadyOf(registry[item[2]], item[2])

\* try_get_data(&self, cache) is called on a handle.
TryGetData ==
    /\ tg.pc = "idle"
    /\ \E h \in Handles :
          /\ item_state[h] # NoState
          /\ tg' = [pc |-> "run", handle |-> h, self |-> HandleItem(h), depth |-> 0]
    /\ UNCHANGED <<item_state, records, registry, notLazyVars>>

\* Calls of try_get_data one call may nest before the stack is exhausted.
MaxDepth == 3

\* The call recurses on itself instead of on the item of the cache.
RecurseIntoSelf(self, cached) == self

\* (*(cache.get_object(*file_index, self.is_level_0)?)).try_get_data(cache):
\* the recursive call is on the item the cache returned.
RecurseInto(self, cached) == cached

\* One call of try_get_data on tg.self (lines 205-214): a Ready state gives
\* its data; a Pending one asks the cache, which returns the item it holds
\* for the locator, or loads and installs it from the record, or fails with
\* a BufIoError when the file holds no record there.
TryGetDataStep ==
    /\ tg.pc = "run"
    /\ tg.depth < MaxDepth
    /\ LET state == StateOf(tg.self)
           file_index == state.offset
       IN
       IF state.kind = "Ready"
       THEN /\ tg' = [pc |-> "done", handle |-> tg.handle, result |-> "Ok",
                      data |-> state.data, depth |-> tg.depth]
            /\ UNCHANGED registry
       ELSE IF registry[file_index] = Null /\ records[file_index] = Null
       THEN /\ tg' = [pc |-> "done", handle |-> tg.handle, result |-> "BufIoError",
                      data |-> Null, depth |-> tg.depth]
            /\ UNCHANGED registry
       ELSE /\ registry' = IF registry[file_index] # Null THEN registry
                           ELSE [registry EXCEPT ![file_index] = records[file_index]]
            /\ tg' = [tg EXCEPT !.self = RecurseInto(@, CachedItem(file_index)),
                                !.depth = @ + 1]
    /\ UNCHANGED <<item_state, records, notLazyVars>>

\* try_get_data has returned.
TryGetDataReturn ==
    /\ tg.pc = "done"
    /\ tg' = TgIdle
    /\ UNCHANGED <<item_state, records, registry, notLazyVars>>

LazyNext ==
    \/ New \/ NewPending \/ NewFromState \/ SetState \/ Serialize
    \/ TryGetData \/ TryGetDataStep \/ TryGetDataReturn

LazyInit == ChainIdle /\ PowIdle /\ ThreadsIdle /\ LazyIdle /\ GraphIdle /\ MoreIdle

LazySpec == LazyInit /\ [][LazyNext]_vars

\* The thread inside try_get_data keeps running.
LazyFairSpec == LazySpec /\ WF_vars(TryGetDataStep)

\* C7, as stated. Lazy-item state is one-way: a handle that is Ready is
\* never Pending afterwards, whatever the operations applied to it.
C7_ReadyNeverPending ==
    [][ \A h \in Handles :
           item_state[h].kind = "Ready" => item_state'[h].kind # "Pending" ]_vars

MaxLinks == 3

\* The nodes of the graph: lazy items 0, 1 and 2; item 0 is the root.
GraphNodes == {0, 1, 2}

\* ProbNode::get_serialized_size(neighbors): the fixed width of a record,
\* from the schema (level, two property locations, three locators, the
\* neighbors with their length, the versions with theirs).
get_serialized_size(n) == 1 + 12 + 12 + 3 * 10 + 2 + n * 19 + 1 + VersionsCap * 10

\* Where create_prob_node wrote the node's property (tests.rs 145-152).
prop_location(n) == [offset |-> n * 24, length |-> 24]

\* NodePropValue { id, vec, location } of node n.
prop_value(n) == [id |-> n, vec |-> <<1, 2, 3>>, location |-> prop_location(n)]

\* The property file, read at a location.
read_prop(location) ==
    prop_value(CHOOSE n \in GraphNodes : prop_location(n) = location)

\* MetricResult::CosineSimilarity(CosineSimilarity(x)), x in tenths.
CosineSimilarityOf(tenths) == [metric |-> "CosineSimilarity", value |-> tenths]

\* The files are laid out as in the neighbor tests (one file, a record
\* after the other) or as in the version test (a file per version, a
\* record at offset 0).
Layouts == {"one_file", "file_per_version"}

GraphInit ==
    /\ \E layout \in Layouts :
          /\ version_number =
                [n \in Items |->
                    IF layout = "file_per_version" /\ n \in GraphNodes THEN n ELSE 0]
          /\ version_id =
                [n \in Items |->
                    IF layout = "file_per_version" /\ n \in GraphNodes
                    THEN generate_hash(n) ELSE generate_hash(0)]
          /\ file_offset =
                [n \in Items |->
                    IF layout = "one_file" /\ n \in GraphNodes
                    THEN n * get_serialized_size(NeighborsCount) ELSE 0]
    /\ hnsw_level = [n \in Items |-> IF n \in GraphNodes THEN n ELSE 0]
    /\ parent = [n \in Items |-> Null]
    /\ child = [n \in Items |-> Null]
    /\ neighbors = [n \in Items |-> [i \in NeighborSlots |-> NoNeighbor]]
    /\ versions = [n \in Items |-> EmptyArray]
    /\ links = 0
    /\ disk = {}
    /\ loaded = NotLoaded
    /\ numbering = 1
    /\ count = 0
    /\ op = NoOp

\* The graph is still being built: nothing is written yet.
Building == disk = {} /\ loaded = NotLoaded /\ links < MaxLinks

\* node.set_parent(other)   (tests.rs 374-377)
SetParent ==
    /\ Building
    /\ \E a \in GraphNodes, b \in GraphNodes :
          /\ a # b
          /\ parent[a] = Null
          /\ parent' = [parent EXCEPT ![a] = b]
    /\ links' = links + 1
    /\ UNCHANGED <<version_number, version_id, versions, file_offset, hnsw_level,
                   child, neighbors, disk, loaded, notGraphVars>>

\* node.set_child(other)   (tests.rs 379)
SetChild ==
    /\ Building
    /\ \E a \in GraphNodes, b \in GraphNodes :
          /\ a # b
          /\ child[a] = Null
          /\ child' = [child EXCEPT ![a] = b]
    /\ links' = links + 1
    /\ UNCHANGED <<version_number, version_id, versions, file_offset, hnsw_level,
                   parent, neighbors, disk, loaded, notGraphVars>>

\* The first empty neighbor slot, or NeighborsCount.
FirstFreeNeighbor(s) ==
    IF \E i \in NeighborSlots : s[i] = NoNeighbor
    THEN CHOOSE i \in NeighborSlots :
            s[i] = NoNeighbor /\ \A j \in 0 .. (i - 1) : s[j] # NoNeighbor
    ELSE NeighborsCount

\* node.add_neighbor(id, other, dist, ..) on a node with an empty slot: the
\* first empty slot takes the triple (tests.rs 323-327).
AddNeighbor ==
    /\ Building
    /\ \E a \in GraphNodes, b \in GraphNodes :
          /\ a # b
          /\ FirstFreeNeighbor(neighbors[a]) < NeighborsCount
          /\ neighbors' = [neighbors EXCEPT ![a][FirstFreeNeighbor(neighbors[a])] =
                              [id |-> b, node |-> b, dist |-> CosineSimilarityOf(b + 1)]]
    /\ links' = links + 1
    /\ UNCHANGED <<version_number, version_id, versions, file_offset, hnsw_level,
                   parent, child, disk, loaded, notGraphVars>>

\* ProbLazyItem::add_version(root, node, &cache) for a node not chained yet
\* (tests.rs 466-469).
AddVersionToRoot ==
    /\ Building
    /\ \E b \in GraphNodes \ {root} :
          /\ Unlinked(versions, b)
          /\ versions' = add_version(versions, root, b).versions
    /\ links' = links + 1
    /\ UNCHANGED <<version_number, version_id, file_offset, hnsw_level,
                   parent, child, neighbors, disk, loaded, notGraphVars>>

\* The file index drops the version number.
get_file_index_no_number(n) ==
    [offset |-> file_offset[n], version_number |-> 0, version_id |-> version_id[n]]

\* ProbLazyItem::get_file_index of a Ready item (lazy_item.rs 182-193)
get_file_index(n) ==
    [offset |-> file_offset[n], version_number |-> version_number[n],
     version_id |-> version_id[n]]

\* u32::MAX, the all-ones offset of the locator written for an absent item.
SentinelOffset == 0 - 1

\* The locator of an absent item: (offset = u32::MAX, version = 0, hash = 0).
Sentinel == [offset |-> SentinelOffset, version_number |-> 0, version_id |-> 0]

\* Every pointer is written as absent.
LocatorOfNothing(item) == Sentinel

\* The locator written for a pointer.
LocatorOf(item) == IF item = Null THEN Sentinel ELSE get_file_index(item)

\* Metric result: a 1-byte tag and the 4 bytes of the value.
MetricTags == <<"CosineSimilarity", "CosineDistance", "EuclideanDistance",
                "HammingDistance", "DotProductDistance">>

EncodeMetric(dist) ==
    <<CHOOSE t \in DOMAIN MetricTags : MetricTags[t] = dist.metric, dist.value>>

DecodeMetric(bytes) == [metric |-> MetricTags[bytes[1]], value |-> bytes[2]]

\* The record of a node: the schema of the Prob Node.
EncodeNode(n) ==
    [hnsw_level |-> hnsw_level[n] % 256,
     prop_loc |-> prop_location(n),
     parent_loc |-> LocatorOf(parent[n]),
     child_loc |-> LocatorOf(child[n]),
     neighbors_len |-> NeighborsCount,
     neighbors |-> [i \in NeighborSlots |->
                       IF neighbors[n][i] = NoNeighbor
                       THEN [locator |-> Sentinel]
                       ELSE [id |-> neighbors[n][i].id,
                             locator |-> LocatorOf(neighbors[n][i].node),
                             dist |-> EncodeMetric(neighbors[n][i].dist)]],
     versions_len |-> ArrayLen(versions[n]),
     versions |-> [i \in Slots |-> LocatorOf(versions[n][i])]]

\* The record at an offset of the file of a version id, if written.
HasRecord(files, locator) ==
    \E e \in files : e.file = locator.version_id /\ e.offset = locator.offset

RecordAt(files, locator) ==
    (CHOOSE e \in files :
        e.file = locator.version_id /\ e.offset = locator.offset).record

\* node.serialize(&bufmans, version, cursor): the node's record is written
\* at its file offset, in the file of its version; what it references is
\* written as locators.
SerializeNode ==
    /\ loaded = NotLoaded
    /\ \E n \in GraphNodes :
          /\ ~HasRecord(disk, get_file_index(n))
          /\ disk' = disk \cup {[file |-> version_id[n], offset |-> file_offset[n],
                                 record |-> EncodeNode(n)]}
    /\ UNCHANGED <<version_number, version_id, versions, file_offset, hnsw_level,
                   parent, child, neighbors, links, loaded, notGraphVars>>

\* The node a record deserializes to; its pointers are the lazy items the
\* cache holds for the locators (an item of the cache is known by its
\* locator), Sentinel standing for the null pointer.
DecodeNode(record) ==
    [hnsw_level |-> record.hnsw_level,
     prop_value |-> read_prop(record.prop_loc),
     parent |-> record.parent_loc,
     child |-> record.child_loc,
     neighbors_len |-> record.neighbors_len,
     neighbors |-> [i \in 0 .. (record.neighbors_len - 1) |->
                       IF record.neighbors[i].locator = Sentinel
                       THEN [node |-> Sentinel]
                       ELSE [id |-> record.neighbors[i].id,
                             node |-> record.neighbors[i].locator,
                             dist |-> DecodeMetric(record.neighbors[i].dist)]],
     versions |-> [i \in Slots |->
                     IF i < record.versions_len THEN record.versions[i] ELSE Sentinel]]

\* The locators a record references.
ReferencesOf(record) ==
    ({record.parent_loc, record.child_loc}
        \cup {record.neighbors[i].locator : i \in NeighborSlots}
        \cup {record.versions[i] : i \in 0 .. (record.versions_len - 1)})
    \ {Sentinel}

RECURSIVE LoadAll(_, _, _)
\* The locators the cache resolves when everything reachable from `todo`
\* is loaded; a locator without a record is kept too (its load fails).
LoadAll(files, todo, seen) ==
    IF todo = {} THEN seen
    ELSE LET l == CHOOSE x \in todo : TRUE IN
         IF l \in seen \/ ~HasRecord(files, l)
         THEN LoadAll(files, todo \ {l}, seen \cup {l})
         ELSE LoadAll(files, (todo \ {l}) \cup ReferencesOf(RecordAt(files, l)),
                      seen \cup {l})

\* cache.load_item(file_index, false) with the root's file index, and the
\* resolution of everything reachable from it (tests.rs 214-220, 478-486).
\* A read where no record was written is a BufIoError.
LoadRoot ==
    /\ loaded = NotLoaded
    /\ disk # {}
    /\ LET file_index == [offset |-> file_offset[root],
                          version_number |-> version_number[root],
                          version_id |-> version_id[root]]
           all == LoadAll(disk, {file_index}, {})
       IN loaded' = IF \A l \in all : HasRecord(disk, l)
                    THEN [result |-> "Ok", root |-> file_index, registry |-> all]
                    ELSE [result |-> "BufIoError"]
    /\ UNCHANGED <<version_number, version_id, versions, file_offset, hnsw_level,
                   parent, child, neighbors, links, disk, notGraphVars>>

\* The length of a loaded versions array.
LoadedLen(a) == Cardinality({i \in Slots : \A j \in 0 .. i : a[j] # Sentinel})

\* EqualityTest for ProbNode, the neighbors and the versions (tests.rs
\* 39-96), without the recursive calls: node n against the node loaded for
\* the locator.
ProbNodeEq(n, locator) ==
    LET other == DecodeNode(RecordAt(disk, locator)) IN
    /\ hnsw_level[n] = other.hnsw_level
    /\ prop_value(n) = other.prop_value
    /\ ArrayLen(versions[n]) = LoadedLen(other.versions)
    /\ (parent[n] # Null) <=> (other.parent # Sentinel)
    /\ (child[n] # Null) <=> (other.child # Sentinel)
    /\ NeighborsCount = other.neighbors_len
    /\ \A i \in NeighborSlots :
          IF neighbors[n][i] = NoNeighbor
          THEN other.neighbors[i].node = Sentinel
          ELSE /\ other.neighbors[i].node # Sentinel
               /\ neighbors[n][i].dist = other.neighbors[i].dist
               /\ neighbors[n][i].id = other.neighbors[i].id

\* EqualityTest for SharedNode (tests.rs 98-116), without the recursion.
SharedNodeEq(n, locator) ==
    /\ version_id[n] = locator.version_id
    /\ version_number[n] = locator.version_number
    /\ ProbNodeEq(n, locator)

\* The pairs the recursive calls of assert_eq go to from a pair that
\* passed.
PairsBelow(n, locator) ==
    LET other == DecodeNode(RecordAt(disk, locator)) IN
    {<<versions[n][i], other.versions[i]>> : i \in 0 .. (ArrayLen(versions[n]) - 1)}
    \cup (IF parent[n] # Null THEN {<<parent[n], other.parent>>} ELSE {})
    \cup (IF child[n] # Null THEN {<<child[n], other.child>>} ELSE {})
    \cup {<<neighbors[n][i].node, other.neighbors[i].node>> :
             i \in {j \in NeighborSlots : neighbors[n][j] # NoNeighbor}}

RECURSIVE assert_eq(_, _)
\* EqualityTester: every pair is checked once (the `checked` set).
assert_eq(todo, checked) ==
    IF todo = {} THEN TRUE
    ELSE LET pair == CHOOSE x \in todo : TRUE IN
         IF pair \in checked THEN assert_eq(todo \ {pair}, checked)
         ELSE /\ SharedNodeEq(pair[1], pair[2])
              /\ assert_eq((todo \ {pair}) \cup PairsBelow(pair[1], pair[2]),
                           checked \cup {pair})

GraphNext == SetParent \/ SetChild \/ AddNeighbor \/ AddVersionToRoot
                \/ SerializeNode \/ LoadRoot

GraphSpecInit == GraphInit /\ PowIdle /\ ThreadsIdle /\ LazyIdle /\ MoreIdle

GraphSpec == GraphSpecInit /\ [][GraphNext]_vars

\* The nodes reachable from the root through parent, child, neighbor and
\* version slots all have their record in the files.
RECURSIVE ReachableNodes(_, _)
ReachableNodes(todo, seen) ==
    IF todo = {} THEN seen
    ELSE LET n == CHOOSE x \in todo : TRUE
             next == ({parent[n], child[n]}
                        \cup {neighbors[n][i].node : i \in NeighborSlots}
                        \cup {versions[n][i] : i \in Slots}) \ {Null}
         IN ReachableNodes((todo \cup next) \ (seen \cup {n}), seen \cup {n})

CyclicPair ==
    /\ parent[0] = 1
    /\ child[1] = 0
    /\ version_id[0] = version_id[1]

\* The records of the files that are the record of node n.
RecordsOfNode(n) ==
    {e \in disk : e.file = version_id[n] /\ e.offset = file_offset[n]}

MaxSlots == 3

\* The distances given are 1 .. MaxDist (tenths).
MaxDist == 4

\* add_neighbor calls in a run.
MaxOffers == 5

\* Metrics whose MetricResult orders by similarity (more is better); the
\* others order by distance (less is better).
SimilarityMetrics == {"CosineSimilarity", "DotProductDistance"}

\* The metrics the node is given distances in.
NodeMetrics == {"CosineSimilarity", "EuclideanDistance"}

\* The MetricResult ordering: a is better than b.
Better(a, b) ==
    IF a.metric \in SimilarityMetrics THEN a.value > b.value ELSE a.value < b.value

\* Step 1: the first empty slot, or the number of slots when all are
\* occupied.
FirstEmptySlot(s) ==
    IF \E i \in DOMAIN s : s[i] = NoNeighbor
    THEN CHOOSE i \in DOMAIN s :
            s[i] = NoNeighbor /\ \A j \in DOMAIN s : j < i => s[j] # NoNeighbor
    ELSE Cardinality(DOMAIN s)

\* The slot with the best distance is taken for the worst.
WorstSlotReversed(s) ==
    CHOOSE i \in DOMAIN s :
        /\ \A j \in DOMAIN s : ~Better(s[j].dist, s[i].dist)
        /\ \A j \in DOMAIN s : j < i => Better(s[i].dist, s[j].dist)

\* Step 2: the slot whose distance is worst under the MetricResult ordering
\* (the first of them), all slots being occupied.
WorstSlot(s) ==
    CHOOSE i \in DOMAIN s :
        /\ \A j \in DOMAIN s : ~Better(s[i].dist, s[j].dist)
        /\ \A j \in DOMAIN s : j < i => Better(s[j].dist, s[i].dist)

\* The worst slot is replaced whatever the new distance is.
ReplacesAlways(dist, worst) == TRUE

\* Step 3: the new triple replaces the worst one if it is better.
Replaces(dist, worst) == Better(dist, worst)

\* node.add_neighbor(id, node, dist, cache, metric), no other thread
\* writing the slots.
add_neighbor(s, id, node, dist) ==
    LET triple == [id |-> id, node |-> node, dist |-> dist] IN
    IF FirstEmptySlot(s) < Cardinality(DOMAIN s)
    THEN [s EXCEPT ![FirstEmptySlot(s)] = triple]
    ELSE IF Replaces(dist, s[WorstSlot(s)].dist)
         THEN [s EXCEPT ![WorstSlot(s)] = triple]
         ELSE s

\* A node of M empty slots (ProbNode::new, tests.rs 153-162).
NodeInit ==
    /\ \E M \in 1 .. MaxSlots : slots = [i \in 0 .. (M - 1) |-> NoNeighbor]
    /\ metric \in NodeMetrics
    /\ offered = <<>>

\* One add_neighbor call, with the id and the item of the call's number
\* (tests.rs 323-327).
AddNeighborCall ==
    /\ Len(offered) < MaxOffers
    /\ \E value \in 1 .. MaxDist :
          /\ slots' = add_neighbor(slots, Len(offered) + 1, Len(offered) + 1,
                                   [metric |-> metric, value |-> value])
          /\ offered' = Append(offered, value)
    /\ UNCHANGED <<metric, restVars, dtoVars, queryVars, raceVars, boxVars,
                   nbrVars, cacheVars, bootVars>>

NodeSpecInit ==
    /\ ChainIdle /\ PowIdle /\ ThreadsIdle /\ LazyIdle /\ GraphIdle
    /\ NodeInit /\ DtoIdle /\ QueryIdle /\ RaceIdle /\ BoxIdle /\ NbrIdle /\ CacheIdle /\ BootIdle

NodeSpec == NodeSpecInit /\ [][AddNeighborCall]_vars

\* The occupied slots of a slots array, and their distances.
Occupied(s) == {i \in DOMAIN s : s[i] # NoNeighbor}

StoredValues(s) == {s[i].dist.value : i \in Occupied(s)}

\* The distances given so far.
OfferedValues == {offered[k] : k \in 1 .. Len(offered)}

\* The values v of a set with fewer than m values of the set better than v.
BestOf(values, m) ==
    {v \in values :
        Cardinality({u \in values :
            Better([metric |-> metric, value |-> u],
                   [metric |-> metric, value |-> v])}) < m}

Min(a, b) == IF a < b THEN a ELSE b

WorstNotWorse(s, t) ==
    \E i \in Occupied(s) :
        /\ \A j \in Occupied(s) : ~Better(s[i].dist, s[j].dist)
        /\ \A j \in Occupied(t) : ~Better(s[i].dist, t[j].dist)

\* C13, as stated: on a node in any state with an occupied slot, the worst
\* distance among the occupied slots after an add_neighbor call is better
\* than or equal to the one before.
C13_MonotonicStated ==
    [][Occupied(slots) # {} => WorstNotWorse(slots, slots')]_vars

\* C13. Neighbor monotonic improvement, on a node whose slots are all
\* occupied: the worst distance among the slots after an add_neighbor call
\* is better than or equal to the one before. (A call that fills an empty
\* slot stores whatever distance it is given.)
C13_MonotonicWhenFull ==
    [][Occupied(slots) = DOMAIN slots => WorstNotWorse(slots, slots')]_vars

\* A full node whose worst slot was replaced by a better distance.
C13_Witness ==
    /\ Occupied(slots) = DOMAIN slots
    /\ Len(offered) > Cardinality(DOMAIN slots)
    /\ Cardinality(DOMAIN slots) > 1
    /\ offered[Len(offered)] \in StoredValues(slots)
    /\ \E k \in 1 .. (Len(offered) - 1) : offered[k] \notin StoredValues(slots)

\* ------------------------------------------------------------------------
\* Deserializing a create-vector request (dtos.rs).

\* Entries in the JSON object of a request.
MaxFields == 5

\* A JSON object as its deserializer gives it to a visitor: the entries in
\* the order of the text, a key as often as the text has it.
Field(key, value) == [key |-> key, value |-> value]

\* The entries a request is made of: the keys of the DTOs, each with
\* values of the JSON type the DTOs read it as.
FieldPool ==
    {Field("index_type", [string |-> t]) : t \in {"dense", "sparse", "tf_idf"}}
    \cup {Field("isIDF", [bool |-> b]) : b \in BOOLEAN}
    \cup {Field("id", [number |-> n]) : n \in {1, 2}}
    \cup {Field("values", [array |-> v]) : v \in {<<50, 25>>, <<10>>}}
    \cup {Field("indices", [array |-> v]) : v \in {<<7, 3>>, <<5>>}}
    \cup {Field("text", [string |-> "doc"])}

\* No entry of the request is written yet.
DtoInit ==
    /\ request = <<>>
    /\ decoded = NotDecoded

\* The client writes one more entry of the object, one the object does not
\* have (a key is there twice with two values).
WriteField ==
    /\ decoded = NotDecoded
    /\ Len(request) < MaxFields
    /\ \E f \in FieldPool \ {request[i] : i \in 1 .. Len(request)} :
          request' = Append(request, f)
    /\ UNCHANGED <<decoded, restVars, nodeVars, queryVars, raceVars, boxVars,
                   nbrVars, cacheVars, bootVars>>

\* A field no entry was read for (Option::None).
None == [none |-> TRUE]

Err(error, field) == [kind |-> "Err", error |-> error, field |-> [name |-> field]]

\* indices.into_iter().zip(values).map(|(index, value)| SparsePair(index,
\* value)).collect()   (dtos.rs 88-92)
zip(indices, values) ==
    [k \in 1 .. Min(Len(indices), Len(values)) |-> <<indices[k], values[k]>>]

\* The pairs are taken from the end of the values.
zip_reversed(indices, values) ==
    [k \in 1 .. Min(Len(indices), Len(values)) |->
        <<indices[k], values[Len(values) + 1 - k]>>]

\* The shorter list is padded with 0 to the length of the longer.
zip_longest(indices, values) ==
    [k \in 1 .. (IF Len(indices) > Len(values) THEN Len(indices) ELSE Len(values)) |->
        <<IF k <= Len(indices) THEN indices[k] ELSE 0,
          IF k <= Len(values) THEN values[k] ELSE 0>>]

\* The pairing of visit_map.
SparsePairs(indices, values) == zip(indices, values)

\* A key read a second time replaces what was read.
IsDuplicateFieldNever(seen) == FALSE

\* id.is_some(), values.is_some(), indices.is_some()   (dtos.rs 57, 63, 69)
IsDuplicateField(seen) == seen # None

RECURSIVE visit_map(_, _, _)
\* CreateSparseVectorDtoVisitor::visit_map (dtos.rs 46-95): the entries
\* from the k-th on, with what was read so far.
visit_map(map, k, read) ==
    IF k > Len(map)
    THEN IF read.id = None THEN Err("missing_field", "id")
         ELSE IF read.values = None THEN Err("missing_field", "values")
         ELSE IF read.indices = None THEN Err("missing_field", "indices")
         ELSE [kind |-> "Ok",
               dto |-> [id |-> read.id.number,
                        values |-> SparsePairs(read.indices.array, read.values.array)]]
    ELSE LET key == map[k].key IN
         IF key \notin {"id", "values", "indices"} THEN Err("unknown_field", key)
         ELSE IF IsDuplicateField(read[key]) THEN Err("duplicate_field", key)
         ELSE visit_map(map, k + 1, [read EXCEPT ![key] = map[k].value])

NothingRead == [id |-> None, values |-> None, indices |-> None]

\* <CreateSparseVectorDto as Deserialize>::deserialize (dtos.rs 31-100)
deserialize_sparse(map) == visit_map(map, 1, NothingRead)

\* The keys of a map, and whether it has a key.
HasKey(map, key) == \E i \in 1 .. Len(map) : map[i].key = key

\* The value of the last entry of a key.
LastValue(map, key) ==
    map[CHOOSE i \in 1 .. Len(map) :
            map[i].key = key /\ \A j \in (i + 1) .. Len(map) : map[j].key # key].value

\* The keys of the DTOs that are not the two of RawMap, in the order a
\* serde_json::Map keeps them.
RestKeys == <<"id", "indices", "metadata", "text", "values">>

\* serde_json::Value read from the entries RawMap has no field for
\* (#[serde(flatten)] rest, dtos.rs 134-135): an object, in which an entry
\* inserted under a key the object has replaces the value.
ValueObject(map) ==
    LET HasIt(key) == HasKey(map, key)
        keys == SelectSeq(RestKeys, HasIt)
    IN [k \in 1 .. Len(keys) |-> Field(keys[k], LastValue(map, keys[k]))]

RECURSIVE raw_map(_, _, _)
\* RawMap::deserialize, derived (dtos.rs 126-136, 142): index_type and
\* isIDF are read once each, every other entry goes to `rest`.
raw_map(map, k, read) ==
    IF k > Len(map)
    THEN IF read.index_type = None THEN Err("missing_field", "index_type")
         ELSE [kind |-> "Ok",
               index_type |-> read.index_type.string,
               is_idf |-> IF read.isIDF = None THEN FALSE ELSE read.isIDF.bool,
               rest |-> ValueObject(read.rest)]
    ELSE LET key == map[k].key IN
         IF key \in {"index_type", "isIDF"}
         THEN IF read[key] # None THEN Err("duplicate_field", key)
              ELSE raw_map(map, k + 1, [read EXCEPT ![key] = map[k].value])
         ELSE raw_map(map, k + 1, [read EXCEPT !.rest = Append(@, map[k])])

\* de::Error::custom of the error of serde_json::from_value.
Custom(inner) == [kind |-> "Err", error |-> "custom", field |-> inner]

\* serde_json::from_value::<CreateDenseVectorDto>(rest), derived (dtos.rs
\* 12-17): keys it has no field for are skipped.
from_value_dense(rest) ==
    IF ~HasKey(rest, "id") THEN Err("missing_field", "id")
    ELSE IF ~HasKey(rest, "values") THEN Err("missing_field", "values")
    ELSE [kind |-> "Ok",
          dto |-> [id |-> LastValue(rest, "id").number,
                   values |-> LastValue(rest, "values").array,
                   metadata |-> IF HasKey(rest, "metadata")
                                THEN LastValue(rest, "metadata") ELSE None]]

\* serde_json::from_value::<CreateSparseIdfDocumentDto>(rest), derived
\* (dtos.rs 25-29).
from_value_sparse_idf(rest) ==
    IF ~HasKey(rest, "id") THEN Err("missing_field", "id")
    ELSE IF ~HasKey(rest, "text") THEN Err("missing_field", "text")
    ELSE [kind |-> "Ok",
          dto |-> [id |-> LastValue(rest, "id").number,
                   text |-> LastValue(rest, "text").string]]

\* isIDF decides before index_type does.
variant_of_idf_first(index_type, is_idf) ==
    IF is_idf THEN "SparseIdf"
    ELSE IF index_type = "dense" THEN "Dense"
    ELSE IF index_type = "sparse" THEN "Sparse"
    ELSE "unknown_variant"

\* match (index_type.as_str(), is_idf)   (dtos.rs 144-158)
variant_of(index_type, is_idf) ==
    IF index_type = "dense" THEN "Dense"
    ELSE IF index_type = "sparse" /\ is_idf THEN "SparseIdf"
    ELSE IF index_type = "sparse" /\ ~is_idf THEN "Sparse"
    ELSE "unknown_variant"

\* <CreateVectorDto as Deserialize>::deserialize (dtos.rs 109-160)
deserialize(map) ==
    LET raw == raw_map(map, 1, [index_type |-> None, isIDF |-> None, rest |-> <<>>]) IN
    IF raw.kind = "Err" THEN raw
    ELSE LET variant == variant_of(raw.index_type, raw.is_idf)
             inner == IF variant = "Dense" THEN from_value_dense(raw.rest)
                      ELSE IF variant = "SparseIdf" THEN from_value_sparse_idf(raw.rest)
                      ELSE deserialize_sparse(raw.rest)
         IN IF variant = "unknown_variant"
            THEN Err("unknown_variant",
                     [variant |-> raw.index_type, expected |-> <<"dense", "sparse">>])
            ELSE IF inner.kind = "Err" THEN Custom(inner)
            ELSE [kind |-> "Ok", variant |-> variant, dto |-> inner.dto]

\* The request is deserialized as a CreateSparseVectorDto.
DeserializeSparseVectorDto ==
    /\ decoded = NotDecoded
    /\ decoded' = [via |-> "CreateSparseVectorDto", result |-> deserialize_sparse(request)]
    /\ UNCHANGED <<request, restVars, nodeVars, queryVars, raceVars, boxVars,
                   nbrVars, cacheVars, bootVars>>

\* The request is deserialized as a CreateVectorDto.
DeserializeVectorDto ==
    /\ decoded = NotDecoded
    /\ decoded' = [via |-> "CreateVectorDto", result |-> deserialize(request)]
    /\ UNCHANGED <<request, restVars, nodeVars, queryVars, raceVars, boxVars,
                   nbrVars, cacheVars, bootVars>>

DtoNext == WriteField \/ DeserializeSparseVectorDto \/ DeserializeVectorDto

DtoSpecInit ==
    /\ ChainIdle /\ PowIdle /\ ThreadsIdle /\ LazyIdle /\ GraphIdle
    /\ NodeIdle /\ DtoInit /\ QueryIdle /\ RaceIdle /\ BoxIdle /\ NbrIdle /\ CacheIdle /\ BootIdle

DtoSpec == DtoSpecInit /\ [][DtoNext]_vars

\* How often the request has a key.
Times(key) == Cardinality({i \in 1 .. Len(request) : request[i].key = key})

\* The keys of the request.
Keys == {request[i].key : i \in 1 .. Len(request)}

\* A sparse request: id, values and indices, and when it is read as a
\* CreateVectorDto, index_type = sparse with isIDF false or absent.
SparseRequest ==
    /\ {"id", "values", "indices"} \subseteq Keys
    /\ \/ /\ decoded.via = "CreateSparseVectorDto"
          /\ Keys = {"id", "values", "indices"}
       \/ /\ decoded.via = "CreateVectorDto"
          /\ Keys \subseteq {"id", "values", "indices", "index_type", "isIDF"}
          /\ Times("index_type") = 1
          /\ Times("isIDF") <= 1
          /\ LastValue(request, "index_type").string = "sparse"
          /\ HasKey(request, "isIDF") => ~LastValue(request, "isIDF").bool

\* C14. Sparse DTO decode: a sparse request with one id, one values and
\* one indices entry of equal length, the keys in any order, decodes to the
\* DTO with that id whose k-th pair is (k-th index, k-th value).
C14_SparseDecode ==
    (/\ SparseRequest
     /\ Times("id") = 1 /\ Times("values") = 1 /\ Times("indices") = 1
     /\ Len(LastValue(request, "values").array)
           = Len(LastValue(request, "indices").array))
    => /\ decoded.result.kind = "Ok"
       /\ decoded.result.dto.id = LastValue(request, "id").number
       /\ decoded.result.dto.values =
             [k \in 1 .. Len(LastValue(request, "values").array) |->
                 <<LastValue(request, "indices").array[k],
                   LastValue(request, "values").array[k]>>]

\* A request with values before indices before id was decoded to two
\* pairs.
C14_Witness ==
    /\ decoded.via = "CreateSparseVectorDto"
    /\ Len(request) = 3
    /\ request[1].key = "values"
    /\ request[2].key = "indices"
    /\ request[3].key = "id"
    /\ decoded.result.kind = "Ok"
    /\ Len(decoded.result.dto.values) = 2

\* C15, as stated: a sparse request that has id, values or indices twice
\* fails with a duplicate-field error, read as a CreateSparseVectorDto or as
\* a CreateVectorDto.
C15_DuplicateRejected ==
    (/\ SparseRequest
     /\ Times("id") > 1 \/ Times("values") > 1 \/ Times("indices") > 1)
    => /\ decoded.result.kind = "Err"
       /\ decoded.result.error = "duplicate_field"

\* The request is one of a dispatch: one index_type, at most one isIDF.
DispatchRequest ==
    /\ decoded.via = "CreateVectorDto"
    /\ Times("index_type") = 1
    /\ Times("isIDF") <= 1

\* isIDF of the request, false when absent.
RequestIsIdf == HasKey(request, "isIDF") /\ LastValue(request, "isIDF").bool

\* C16. Request dispatch: with index_type and isIDF given (isIDF false
\* when absent), a decoded request is Dense for dense whatever isIDF is,
\* SparseIdf for sparse with isIDF true, Sparse for sparse with isIDF false
\* or absent; any other index_type fails with unknown_variant, naming the
\* value and the expected dense and sparse; and the payload each variant
\* needs is enough for the request to decode.
C16_Dispatch ==
    DispatchRequest =>
        LET index_type == LastValue(request, "index_type").string
            result == decoded.result
        IN /\ index_type = "dense" =>
                 /\ result.kind = "Ok" => result.variant = "Dense"
                 /\ result.kind = "Err" => result.error = "custom"
                 /\ {"id", "values"} \subseteq Keys => result.kind = "Ok"
           /\ (index_type = "sparse" /\ RequestIsIdf) =>
                 /\ result.kind = "Ok" => result.variant = "SparseIdf"
                 /\ result.kind = "Err" => result.error = "custom"
                 /\ {"id", "text"} \subseteq Keys => result.kind = "Ok"
           /\ (index_type = "sparse" /\ ~RequestIsIdf) =>
                 /\ result.kind = "Ok" => result.variant = "Sparse"
                 /\ result.kind = "Err" => result.error = "custom"
                 /\ ({"id", "values", "indices"} \subseteq Keys /\ "text" \notin Keys)
                       => result.kind = "Ok"
           /\ index_type \notin {"dense", "sparse"} =>
                 /\ result.kind = "Err"
                 /\ result.error = "unknown_variant"
                 /\ result.field.name.variant = index_type
                 /\ result.field.name.expected = <<"dense", "sparse">>

\* A dense request with isIDF true was decoded to Dense.
C16_Witness ==
    /\ DispatchRequest
    /\ LastValue(request, "index_type").string = "dense"
    /\ RequestIsIdf
    /\ decoded.result.kind = "Ok"
    /\ decoded.result.variant = "Dense"

\* ------------------------------------------------------------------------
\* ANN queries (api_service.rs 254-337).

\* Queries in a batch.
MaxQueries == 3

\* What makes a query fail: its quantization, its search, or nothing.
Faults == {"none", "quantize", "search"}

\* The query vectors.
QueryPool == {[vec |-> v, fault |-> f] : v \in {1, 2}, f \in Faults}

\* The metadata filter given: none, one the schema encodes, one it does
\* not.
Filters == {"none", "encodable", "unencodable"}

QueryInit ==
    /\ queries \in UNION {[1 .. n -> QueryPool] : n \in 0 .. MaxQueries}
    /\ collection \in [has_schema : BOOLEAN, filter : Filters]
    /\ running = FALSE
    /\ finished = <<>>
    /\ answer = NoAnswer

\* metadata_filter.map(|filter| { let metadata_schema =
\* collection.meta.metadata_schema.as_ref().unwrap();
\* filter_encoded_dimensions(metadata_schema, &filter).unwrap() })
\* (api_service.rs 275-278, 303-306): both unwraps panic.
query_filter_dims(c) ==
    IF c.filter = "none" THEN [kind |-> "Ok", dims |-> "None"]
    ELSE IF ~c.has_schema THEN [kind |-> "Panic", at |-> "metadata_schema.unwrap"]
    ELSE IF c.filter = "unencodable"
         THEN [kind |-> "Panic", at |-> "filter_encoded_dimensions.unwrap"]
    ELSE [kind |-> "Ok", dims |-> "Some"]

\* quantize(..)? (api_service.rs 263-267, 311-315)
quantize(query) ==
    IF query.fault = "quantize"
    THEN [kind |-> "Err", error |-> "quantization"]
    ELSE [kind |-> "Ok"]

\* ann_search(..)? and finalize_ann_results(..)? (api_service.rs 280-291,
\* 323-333): the result list of a query, for the filter dimensions given.
search(query, dims) ==
    IF query.fault = "search"
    THEN [kind |-> "Err", error |-> "search"]
    ELSE [kind |-> "Ok", value |-> <<[id |-> query.vec, filter |-> dims]>>]

\* A query that fails gives an empty result list.
run_query_swallow(query, dims) ==
    IF quantize(query).kind = "Err" \/ search(query, dims).kind = "Err"
    THEN [kind |-> "Ok", value |-> <<>>]
    ELSE search(query, dims)

\* The closure of the parallel map (api_service.rs 310-334).
run_query(query, dims) ==
    IF quantize(query).kind = "Err" THEN quantize(query) ELSE search(query, dims)

\* ann_vector_query (api_service.rs 254-293): the quantization comes before
\* the filter dimensions.
ann_vector_query(query, c) ==
    IF quantize(query).kind = "Err" THEN quantize(query)
    ELSE IF query_filter_dims(c).kind = "Panic" THEN query_filter_dims(c)
    ELSE search(query, query_filter_dims(c).dims)

AnnVectorQuery ==
    /\ answer = NoAnswer
    /\ ~running
    /\ Len(queries) = 1
    /\ answer' = [call |-> "ann_vector_query",
                  result |-> ann_vector_query(queries[1], collection)]
    /\ UNCHANGED <<queries, collection, running, finished, restVars, nodeVars, dtoVars,
                   raceVars, boxVars,
                   nbrVars, cacheVars, bootVars>>

\* batch_ann_vector_query up to into_par_iter (api_service.rs 303-309).
BatchStart ==
    /\ answer = NoAnswer
    /\ ~running
    /\ IF query_filter_dims(collection).kind = "Panic"
       THEN /\ answer' = [call |-> "batch_ann_vector_query",
                          result |-> query_filter_dims(collection)]
            /\ UNCHANGED running
       ELSE /\ running' = TRUE
            /\ UNCHANGED answer
    /\ UNCHANGED <<queries, collection, finished, restVars, nodeVars, dtoVars, raceVars,
                   boxVars,
                   nbrVars, cacheVars, bootVars>>

\* The queries whose task has ended.
Ended == {finished[k].index : k \in 1 .. Len(finished)}

\* A worker runs the closure on a query no worker has taken: any of them,
\* at any time.
RunTask ==
    /\ running
    /\ \E j \in (1 .. Len(queries)) \ Ended :
          finished' = Append(finished,
                             [index |-> j,
                              result |-> run_query(queries[j],
                                                   query_filter_dims(collection).dims)])
    /\ UNCHANGED <<queries, collection, running, answer, restVars, nodeVars, dtoVars,
                   raceVars, boxVars,
                   nbrVars, cacheVars, bootVars>>

\* The result lists are taken in the order the tasks ended.
collect_as_finished(done, n) == [j \in 1 .. n |-> done[j].result.value]

\* collect() of an indexed parallel iterator into a Vec: the j-th element
\* is what the closure returned for the j-th input.
collect(done, n) ==
    [j \in 1 .. n |->
        done[CHOOSE k \in 1 .. Len(done) : done[k].index = j].result.value]

\* .collect() into a Result (api_service.rs 335): an Err of a task if
\* there is one (the tasks not taken yet may be skipped), else the Vec.
Collect ==
    /\ running
    /\ \/ /\ \E k \in 1 .. Len(finished) : finished[k].result.kind = "Err"
          /\ \E k \in 1 .. Len(finished) :
                /\ finished[k].result.kind = "Err"
                /\ answer' = [call |-> "batch_ann_vector_query",
                              result |-> finished[k].result]
       \/ /\ Ended = 1 .. Len(queries)
          /\ \A k \in 1 .. Len(finished) : finished[k].result.kind = "Ok"
          /\ answer' = [call |-> "batch_ann_vector_query",
                        result |-> [kind |-> "Ok",
                                    value |-> collect(finished, Len(queries))]]
    /\ running' = FALSE
    /\ UNCHANGED <<queries, collection, finished, restVars, nodeVars, dtoVars, raceVars,
                   boxVars,
                   nbrVars, cacheVars, bootVars>>

QueryNext == AnnVectorQuery \/ BatchStart \/ RunTask \/ Collect

QuerySpecInit ==
    /\ ChainIdle /\ PowIdle /\ ThreadsIdle /\ LazyIdle /\ GraphIdle
    /\ NodeIdle /\ DtoIdle /\ QueryInit /\ RaceIdle /\ BoxIdle /\ NbrIdle /\ CacheIdle /\ BootIdle

QuerySpec == QuerySpecInit /\ [][QueryNext]_vars

\* C17. Batched search keeps input order: however the tasks were
\* scheduled, a batch that succeeds returns as many result lists as there
\* are queries, the j-th being the result of the j-th query.
C17_BatchKeepsOrder ==
    (/\ answer # NoAnswer
     /\ answer.call = "batch_ann_vector_query"
     /\ answer.result.kind = "Ok")
    => /\ Len(answer.result.value) = Len(queries)
       /\ \A j \in 1 .. Len(queries) :
             answer.result.value[j] =
                 search(queries[j], query_filter_dims(collection).dims).value

\* A batch of different queries succeeded whose first task ended last.
C17_Witness ==
    /\ answer # NoAnswer
    /\ answer.call = "batch_ann_vector_query"
    /\ answer.result.kind = "Ok"
    /\ Len(queries) = MaxQueries
    /\ queries[1].vec # queries[MaxQueries].vec
    /\ finished[Len(finished)].index = 1

\* The call cannot be answered: a query's quantization or search fails, or
\* a metadata filter is given that the collection has no schema for or
\* that cannot be encoded.
Unanswerable ==
    \/ \E j \in 1 .. Len(queries) : queries[j].fault # "none"
    \/ collection.filter # "none" /\ ~collection.has_schema
    \/ collection.filter = "unencodable"

\* C18, as stated: a query call that cannot be answered returns an Err to
\* its caller, and no call aborts the task it runs on.
C18_FailureIsErr ==
    answer # NoAnswer =>
        /\ answer.result.kind \in {"Ok", "Err"}
        /\ Unanswerable => answer.result.kind = "Err"

\* ------------------------------------------------------------------------
\* More claims about the version chain (Spec).

RECURSIVE FloorLog4(_)
\* The greatest f with 4^f <= m, for m >= 1.
FloorLog4(m) == IF m < 4 THEN 0 ELSE 1 + FloorLog4(m \div 4)

\* C19. Root fan-out: after N >= 1 versions were added to a root one call
\* after the other, the root's versions array has exactly
\* floor(log4(N)) + 1 occupied slots, the first ones, and slot i holds the
\* 4^i-th version added (whose number is 4^i ahead of the root's when the
\* numbers are consecutive).
C19_RootFanOut ==
    count >= 1 =>
        /\ ArrayLen(versions[root]) = FloorLog4(count) + 1
        /\ \A i \in Slots :
              IF i <= FloorLog4(count)
              THEN /\ versions[root][i] = 4 ^ i
                   /\ Consecutive =>
                         version_number[versions[root][i]] = version_number[root] + 4 ^ i
              ELSE versions[root][i] = Null

\* Sixteen versions or more were added: the root has its third slot.
C19_Witness ==
    /\ count >= 16
    /\ ArrayLen(versions[root]) = 3
    /\ versions[root][2] = 16

\* C20. Terminus tracking: after k versions were added to a root (k >= 0),
\* get_latest_version(root), which follows the last occupied slot of every
\* node, returns the k-th added node with the relative number k, and the
\* root with 0 when k = 0.
C20_TerminusTracking ==
    /\ get_latest_version(versions, root) = <<count, count>>
    /\ op.call = "get_latest_version" => op.node = count /\ op.relative = count
    /\ count = 0 => get_latest_version(versions, root) = <<root, 0>>

\* get_latest_version returned the 7th added node, three slots away from
\* the root (7 = 4 + 1 + 1 + 1).
C20_Witness ==
    /\ op.call = "get_latest_version"
    /\ count = 7
    /\ op.node = 7
    /\ HopsFromRoot(versions, op.node) = 4

\* The slots <<node, i>> whose content differs between two families of
\* versions arrays.
ChangedSlots(V, W) == {pair \in Items \X Slots : V[pair[1]][pair[2]] # W[pair[1]][pair[2]]}

\* C21. Sequential inserts are always accepted: every add_version call on
\* the root, the calls made one after the other, returns Ok(Ok(owner)),
\* never the duplicate outcome; exactly one slot of the whole chain changes,
\* an empty slot of the owner, and it receives the new node.
C21_SequentialAccepted ==
    [][ (op'.call = "add_version" /\ op' # op) =>
          /\ op'.kind = "Ok"
          /\ count' = count + 1
          /\ \E i \in Slots :
                /\ ChangedSlots(versions, versions') = {<<op'.node, i>>}
                /\ versions[op'.node][i] = Null
                /\ versions'[op'.node][i] = op'.version ]_vars

\* An add_version call was accepted by a node two hops below the root.
C21_Witness ==
    /\ op.call = "add_version"
    /\ op.kind = "Ok"
    /\ op.visited = 3
    /\ versions[op.node][1] = op.version

\* ------------------------------------------------------------------------
\* Several threads calling add_version on one root (lazy_item.rs 216-261),
\* a step of one thread at a time.

\* Threads calling add_version.
MaxWriters == 2

\* Versions the threads add in a run.
MaxRaceVersions == 3

Writers == 1 .. MaxWriters

RaceInit ==
    /\ ChainIdle
    /\ writers = [w \in Writers |-> WriterIdle]
    /\ results = {}

\* A thread enters add_version with a new item (ProbLazyItem::new); the
\* descent of get_latest_version_inner starts at the root.
RaceStart ==
    /\ count < MaxRaceVersions
    /\ \E w \in Writers :
          /\ writers[w].pc = "idle"
          /\ writers' = [writers EXCEPT ![w] =
                            [pc |-> "latest", version |-> count + 1,
                             this |-> root, latest |-> 0]]
    /\ NewItem(count + 1, generate_hash(NumberOf(count + 1)), NumberOf(count + 1))
    /\ count' = count + 1
    /\ UNCHANGED <<numbering, versions, op, results, powVars, threadVars, lazyVars,
                   graphVars, nodeVars, dtoVars, queryVars, boxVars,
                   nbrVars, cacheVars, bootVars>>

\* get_latest_version_inner on the thread's node: versions.last() is
\* followed, or the terminus is reached and add_version_inner starts at
\* the root.
RaceLatest ==
    /\ \E w \in Writers :
          /\ writers[w].pc = "latest"
          /\ LET me == writers[w]
                 last == ArrayLast(versions[me.this])
             IN writers' = [writers EXCEPT ![w] =
                   IF last # Null
                   THEN [me EXCEPT !.this = last,
                                   !.latest = LatestRelative(ArrayLen(versions[me.this]), @)]
                   ELSE [pc |-> "inner", version |-> me.version, this |-> root,
                         self |-> 0, target |-> TargetRelative(me.latest)]]
    /\ UNCHANGED <<chainVars, results, powVars, threadVars, lazyVars, graphVars,
                   nodeVars, dtoVars, queryVars, boxVars,
                   nbrVars, cacheVars, bootVars>>

\* add_version_inner on the thread's node, up to the read of
\* versions.get(index) (lines 240-255).
RaceInner ==
    /\ \E w \in Writers :
          /\ writers[w].pc = "inner"
          /\ LET me == writers[w]
                 target_diff == TargetDiff(me.target, me.self)
                 index == largest_power_of_4_below(target_diff)
                 existing == ArrayGet(versions[me.this], index)
             IN writers' = [writers EXCEPT ![w] =
                   IF IsDuplicate(target_diff)
                   THEN [pc |-> "done", version |-> me.version, kind |-> "Err",
                         node |-> me.this, lenIsIndex |-> TRUE]
                   ELSE IF SlotTaken(existing)
                   THEN [me EXCEPT !.this = existing, !.self = NextRelative(@, index)]
                   ELSE [pc |-> "push", version |-> me.version, this |-> me.this,
                         index |-> index]]
    /\ UNCHANGED <<chainVars, results, powVars, threadVars, lazyVars, graphVars,
                   nodeVars, dtoVars, queryVars, boxVars,
                   nbrVars, cacheVars, bootVars>>

\* debug_assert_eq!(versions.len(), index); versions.push(version);
\* Ok(Ok(this))   (lines 256-260): what the assertion would see is kept.
RacePush ==
    /\ \E w \in Writers :
          /\ writers[w].pc = "push"
          /\ LET me == writers[w] IN
             /\ versions' = [versions EXCEPT
                                ![me.this] = AppendVersion(@, me.index, me.version)]
             /\ writers' = [writers EXCEPT ![w] =
                               [pc |-> "done", version |-> me.version, kind |-> "Ok",
                                node |-> me.this,
                                lenIsIndex |-> ArrayLen(versions[me.this]) = me.index]]
    /\ UNCHANGED <<numbering, count, version_number, version_id, op, results,
                   powVars, threadVars, lazyVars, graphVars, nodeVars, dtoVars,
                   queryVars, boxVars,
                   nbrVars, cacheVars, bootVars>>

\* add_version has returned to the thread.
RaceReturn ==
    /\ \E w \in Writers :
          /\ writers[w].pc = "done"
          /\ results' = results \cup
                {[version |-> writers[w].version, kind |-> writers[w].kind,
                  node |-> writers[w].node, lenIsIndex |-> writers[w].lenIsIndex]}
          /\ writers' = [writers EXCEPT ![w] = WriterIdle]
    /\ UNCHANGED <<chainVars, powVars, threadVars, lazyVars, graphVars,
                   nodeVars, dtoVars, queryVars, boxVars,
                   nbrVars, cacheVars, bootVars>>

RaceNext == RaceStart \/ RaceLatest \/ RaceInner \/ RacePush \/ RaceReturn

RaceSpecInit ==
    /\ RaceInit /\ PowIdle /\ ThreadsIdle /\ LazyIdle /\ GraphIdle
    /\ NodeIdle /\ DtoIdle /\ QueryIdle /\ BoxIdle /\ NbrIdle /\ CacheIdle /\ BootIdle

RaceSpec == RaceSpecInit /\ [][RaceNext]_vars

\* The slots that hold item n.
SlotsOf(n) == {pair \in Items \X Slots : versions[pair[1]][pair[2]] = n}

RECURSIVE ReachableVersions(_, _)
\* The items reached from the items of `todo` through versions slots.
ReachableVersions(todo, seen) ==
    IF todo = {} THEN seen
    ELSE LET n == CHOOSE x \in todo : TRUE
             next == {versions[n][i] : i \in Slots} \ {Null}
         IN ReachableVersions((todo \cup next) \ (seen \cup {n}), seen \cup {n})

\* The results of the calls that returned Ok(Ok(_)).
Accepted == {r \in results : r.kind = "Ok"}

\* C22. Concurrent appends do not overwrite: however the add_version calls
\* of the threads interleave, the node of every call that returned Ok is,
\* from then on, in exactly one slot of the chain, a slot of the owner the
\* call returned, and is reached from the root; so no push took the slot
\* of another node.
C22_NoOverwrite ==
    \A r \in Accepted :
        /\ Cardinality(SlotsOf(r.version)) = 1
        /\ \E i \in Slots : versions[r.node][i] = r.version
        /\ r.version \in ReachableVersions({root}, {})

\* Two calls that raced for one slot of the root both returned Ok.
C22_Witness ==
    /\ \E r \in Accepted : ~r.lenIsIndex
    /\ Cardinality({r \in Accepted : r.node = root}) >= 2
    /\ \A w \in Writers : writers[w].pc = "idle"

\* The nodes of the chain below the root.
ChainedNodes == ReachableVersions({root}, {}) \ {root}

\* C23, as stated: in every interleaving, versions.len() == index holds at
\* every push, and once the calls have returned get_latest_version counts
\* the nodes of the chain.
C23_PlacementUnderInterleaving ==
    /\ \A r \in Accepted : r.lenIsIndex
    /\ (\A w \in Writers : writers[w].pc = "idle") =>
          get_latest_version(versions, root)[2] = Cardinality(ChainedNodes)

\* ------------------------------------------------------------------------
\* The boxed state of one lazy item: set_state, the readers of the state
\* and the drop of the item (lazy_item.rs 140-214, 371-378), a step of one
\* thread at a time.

\* set_state calls in a run.
MaxSets == 2

\* Threads calling set_state.
MaxSetters == 2

\* The boxes: box 0 is the one the item was made with, box k the one the
\* k-th set_state call made.
Boxes == 0 .. MaxSets

Setters == 1 .. MaxSetters

\* What a reader does with the state: it copies a value out of it
\* (is_ready, is_pending, get_file_index, get_current_version_id,
\* get_current_version_number), or it returns a reference into it
\* (unsafe_get_state, get_lazy_data, try_get_data).
ReaderCalls == {"copies", "borrows"}

\* ProbLazyItem::new: the state pointer names the first box.
BoxInit ==
    /\ state_ptr = 0
    /\ heap = [b \in Boxes |-> [made |-> b = 0, frees |-> 0]]
    /\ setters = [t \in Setters |-> [pc |-> "idle"]]
    /\ reader = [pc |-> "idle"]
    /\ faults = {}
    /\ dropped = FALSE

\* The boxes made so far.
Made == {b \in Boxes : heap[b].made}

\* set_state frees the box it has just installed.
FreedBySetStateNew(old_state, new_state) == new_state

\* drop(Box::from_raw(old_state))   (lines 149-152)
FreedBySetState(old_state, new_state) == old_state

\* self.state.swap(Box::into_raw(Box::new(new_state)), Ordering::SeqCst)
\* (lines 146-148): the new box is made and installed, the old pointer
\* taken, in one atomic step.
SetStateSwap ==
    /\ ~dropped
    /\ Cardinality(Made) <= MaxSets
    /\ \E t \in Setters :
          /\ setters[t].pc = "idle"
          /\ LET new_state == Cardinality(Made) IN
             /\ heap' = [heap EXCEPT ![new_state].made = TRUE]
             /\ state_ptr' = new_state
             /\ setters' = [setters EXCEPT ![t] =
                               [pc |-> "swapped",
                                free |-> FreedBySetState(state_ptr, new_state)]]
    /\ UNCHANGED <<reader, faults, dropped, notBoxVars>>

\* The box is freed (line 151).
SetStateFree ==
    /\ \E t \in Setters :
          /\ setters[t].pc = "swapped"
          /\ heap' = [heap EXCEPT ![setters[t].free].frees = @ + 1]
          /\ setters' = [setters EXCEPT ![t] = [pc |-> "idle"]]
    /\ UNCHANGED <<state_ptr, reader, faults, dropped, notBoxVars>>

\* self.state.load(..) of a reader (lines 142, 158, 167, 175, 184, 196,
\* 200, 208).
ReaderLoad ==
    /\ ~dropped
    /\ reader.pc = "idle"
    /\ \E call \in ReaderCalls :
          reader' = [pc |-> "loaded", call |-> call, box |-> state_ptr]
    /\ UNCHANGED <<state_ptr, heap, setters, faults, dropped, notBoxVars>>

\* &*ptr: the reader goes through the pointer it loaded, and returns what
\* it copied or keeps the reference it made.
ReaderDeref ==
    /\ reader.pc = "loaded"
    /\ faults' = IF heap[reader.box].frees > 0
                 THEN faults \cup {[read |-> "deref", box |-> reader.box]}
                 ELSE faults
    /\ reader' = IF reader.call = "borrows"
                 THEN [pc |-> "holding", box |-> reader.box]
                 ELSE [pc |-> "idle"]
    /\ UNCHANGED <<state_ptr, heap, setters, dropped, notBoxVars>>

\* The caller reads through the reference it was returned (&'a T, the
\* lifetime chosen by the caller).
ReaderUse ==
    /\ reader.pc = "holding"
    /\ faults' = IF heap[reader.box].frees > 0
                 THEN faults \cup {[read |-> "reference", box |-> reader.box]}
                 ELSE faults
    /\ reader' = [pc |-> "idle"]
    /\ UNCHANGED <<state_ptr, heap, setters, dropped, notBoxVars>>

\* Drop for ProbLazyItem (lines 371-378): the item is owned, no call on it
\* is running; the box the pointer names is freed.
DropItem ==
    /\ ~dropped
    /\ \A t \in Setters : setters[t].pc = "idle"
    /\ reader.pc \in {"idle", "holding"}
    /\ heap' = [heap EXCEPT ![state_ptr].frees = @ + 1]
    /\ dropped' = TRUE
    /\ UNCHANGED <<state_ptr, setters, reader, faults, notBoxVars>>

BoxNext ==
    \/ SetStateSwap \/ SetStateFree \/ ReaderLoad \/ ReaderDeref \/ ReaderUse
    \/ DropItem

BoxSpecInit ==
    /\ ChainIdle /\ PowIdle /\ ThreadsIdle /\ LazyIdle /\ GraphIdle
    /\ NodeIdle /\ DtoIdle /\ QueryIdle /\ RaceIdle /\ BoxInit /\ NbrIdle /\ CacheIdle /\ BootIdle

BoxSpec == BoxSpecInit /\ [][BoxNext]_vars

\* C24, as stated: no reader goes through a state box, or through a
\* reference it got from one, after set_state has freed that box.
C24_NoUseOfFreedState == faults = {}

\* C25. Each state box is freed exactly once: no box is freed twice, the
\* box the state pointer names is not freed while the item lives, only
\* boxes that were made are freed, and once the item is dropped, the
\* set_state calls having returned, every box made was freed once.
C25_FreedExactlyOnce ==
    /\ \A b \in Boxes : heap[b].frees <= 1
    /\ \A b \in Boxes : heap[b].frees > 0 => heap[b].made
    /\ ~dropped => heap[state_ptr].frees = 0
    /\ dropped => \A b \in Made : heap[b].frees = 1

\* Two set_state calls, then the item dropped: three boxes were made,
\* each freed.
C25_Witness ==
    /\ dropped
    /\ Cardinality(Made) = 3
    /\ \A b \in Made : heap[b].frees = 1

\* C26, as stated: after try_get_data has succeeded through the cache on a
\* handle that was Pending, the handle is Ready.
C26_ResolvedHandleIsReady ==
    (tg.pc = "done" /\ tg.result = "Ok" /\ tg.depth >= 1)
        => item_state[tg.handle].kind = "Ready"

\* ------------------------------------------------------------------------
\* The arithmetic of the descent of add_version.

\* C27. In every call of add_version_inner reached from add_version, the
\* node's relative number is at most the target's (no u16 subtraction
\* wraps), largest_power_of_4_below is not called with 0 (its assertion does
\* not fire), and the slot index computed is at most 7, below the capacity.
C27_DescentArithmetic ==
    op # NoOp /\ op.call = "add_version" =>
        /\ ~op.wrapped
        /\ op.kind # "Panic"
        /\ op.index <= VersionsCap - 1

\* A descent over three nodes that computed the slot indices 2, 1 and 0
\* (the 21st version: 16 + 4 + 1).
C27_Witness ==
    /\ op # NoOp /\ op.call = "add_version"
    /\ op.kind = "Ok"
    /\ op.visited = 3
    /\ op.index = 2
    /\ op.target = 21

\* ------------------------------------------------------------------------
\* Placement by ordinal.

\* Whether the k-th node added holds a node in its slot i once `n` nodes
\* were added: the node 4^i additions later exists, and the descent to it
\* passes through the k-th node (base 4, the digits of k below i are 0 and
\* digit i is not 3).
SlotUsed(k, i, n) ==
    /\ k + 4 ^ i <= n
    /\ k % (4 ^ i) = 0
    /\ (k \div (4 ^ i)) % 4 < 3

\* The versions arrays after n additions, the nodes named by their ordinal.
ShapeOf(n) ==
    [k \in Items |-> [i \in Slots |-> IF k <= n /\ SlotUsed(k, i, n) THEN k + 4 ^ i ELSE Null]]

\* Every occupied slot i of a chained node references the version whose
\* number is the node's + 4^i.
NumbersSpaced ==
    \A k \in Chained : \A i \in Slots :
        versions[k][i] # Null =>
            version_number[versions[k][i]] = version_number[k] + 4 ^ i

\* C28. Placement is by ordinal: the versions arrays are a function of the
\* count of nodes added alone, whatever numbers the nodes carry, and the
\* numbers are spaced by 4^i along the slots only when the k-th node added
\* carries the root's number + k.
C28_PlacementByOrdinal ==
    /\ versions = ShapeOf(count)
    /\ NumbersSpaced =>
          \A k \in Chained : version_number[k] = version_number[root] + k

\* A chain of every second version: slot 1 of the root holds the 4th node
\* added, whose number is 8 ahead.
C28_Witness ==
    /\ numbering = 2
    /\ count >= 5
    /\ versions[root][1] = 4
    /\ version_number[4] = version_number[root] + 8
    /\ versions[4][0] = 5

\* ------------------------------------------------------------------------
\* The calls on the chain, one at a time, on a chain long enough for a
\* descent over more nodes than a versions array has slots.

\* Later versions of the long chain.
MaxDeepVersions == 47

DeepItems == 0 .. MaxDeepVersions

\* The root, numbered 0, with no later version; the versions are numbered
\* one by one.
DeepInit ==
    /\ numbering = 1
    /\ count = 0
    /\ version_number = [n \in DeepItems |-> 0]
    /\ version_id = [n \in DeepItems |-> IF n = root THEN generate_hash(0) ELSE 0]
    /\ versions = [n \in DeepItems |-> EmptyArray]
    /\ op = NoOp

RECURSIVE LatestVisited(_, _)
\* The calls of get_latest_version_inner on one descent: one per node.
LatestVisited(V, this) ==
    IF ArrayLast(V[this]) # Null THEN 1 + LatestVisited(V, ArrayLast(V[this])) ELSE 1

\* ProbLazyItem::add_version(root, next_version, &cache)
DeepAddVersion ==
    /\ op = NoOp
    /\ count < MaxDeepVersions
    /\ LET new == count + 1
           r == add_version(versions, root, new)
       IN
       /\ NewItem(new, generate_hash(NumberOf(new)), NumberOf(new))
       /\ versions' = r.versions
       /\ count' = IF r.kind = "Ok" THEN new ELSE count
       /\ op' = [call |-> "add_version", target |-> new, kind |-> r.kind,
                 node |-> r.node, visited |-> r.visited]
    /\ UNCHANGED <<numbering, notChainVars>>

\* ProbLazyItem::add_version_inner(root, version, 0, target, &cache) with
\* the target of a version that is in the chain: the duplicate is found.
DeepAddVersionInner ==
    /\ op = NoOp
    /\ \E target \in 0 .. count :
          LET r == add_version_inner(versions, root, count + 1, 0, target, 1) IN
          /\ versions' = r.versions
          /\ op' = [call |-> "add_version_inner", target |-> target, kind |-> r.kind,
                    node |-> r.node, visited |-> r.visited]
    /\ UNCHANGED <<numbering, count, version_number, version_id, notChainVars>>

\* ProbLazyItem::get_version(root, version, &cache)
DeepGetVersion ==
    /\ op = NoOp
    /\ \E version \in Targets :
          LET r == get_version(versions, version_number, root, version, 1) IN
          op' = [call |-> "get_version", target |-> version, kind |-> "Ok",
                 node |-> r[1], visited |-> r[2]]
    /\ UNCHANGED <<numbering, count, version_number, version_id, versions, notChainVars>>

\* ProbLazyItem::get_latest_version(root, &cache)
DeepGetLatestVersion ==
    /\ op = NoOp
    /\ LET r == get_latest_version(versions, root) IN
       op' = [call |-> "get_latest_version", target |-> r[2], kind |-> "Ok",
              node |-> r[1], visited |-> LatestVisited(versions, root)]
    /\ UNCHANGED <<numbering, count, version_number, version_id, versions, notChainVars>>

DeepNext ==
    \/ DeepAddVersion \/ DeepAddVersionInner \/ DeepGetVersion
    \/ DeepGetLatestVersion \/ Return

DeepSpecInit == DeepInit /\ PowIdle /\ ThreadsIdle /\ LazyIdle /\ GraphIdle /\ MoreIdle

DeepSpec == DeepSpecInit /\ [][DeepNext]_vars

\* C29, as stated. Recursion bound: no descent of add_version_inner,
\* get_latest_version or get_version visits more than 8 nodes, the slot
\* capacity.
C29_RecursionBoundStated == op # NoOp => op.visited <= VersionsCap

\* C29, amended. No descent of add_version_inner, get_latest_version or
\* get_version visits more than 1 + 3 * ceil(log4(total_versions)) nodes,
\* the root counted among the versions: a hop of 4^i may be taken up to
\* three times.
C29_RecursionBound == op # NoOp => op.visited <= 1 + 3 * CeilLog4(TotalVersions)

\* A descent over nine nodes: get_version for the 47th later version
\* (47 = 16 + 16 + 4 + 4 + 4 + 1 + 1 + 1).
C29_Witness ==
    /\ op # NoOp /\ op.call = "get_version"
    /\ op.target = 47
    /\ op.node = 47
    /\ op.visited = 9

\* ------------------------------------------------------------------------
\* ProbNode::add_neighbor called by several threads on one node (the policy
\* of the Prob Node: each slot an atomic pointer to a triple on the heap,
\* compare-and-swap on the pointer, the displaced triple freed after the
\* swap), a step of one thread at a time.

\* Threads calling add_neighbor.
MaxCallers == 2

\* add_neighbor calls the threads make in a run.
MaxNbrCalls == 3

\* Neighbor slots of the node.
MaxCells == 2

Callers == 1 .. MaxCallers

\* Heap addresses a triple can be allocated at: as many as triples can be
\* live at a time, one per slot and one per call.
Addrs == 1 .. (MaxCells + MaxCallers)

\* The similarities given (tenths).
Sims == {1, 2, 3}

\* MetricResult::CosineSimilarity(CosineSimilarity(v / 10.0))   (tests.rs 323)
CosineResult(v) == [metric |-> "CosineSimilarity", value |-> v]

EmptyCell == [addr |-> Null, stamp |-> 0]

\* A heap address: whether a triple lives at it, the similarity it holds,
\* and how many triples were allocated at it so far.
Freed(triple) == [live |-> FALSE, value |-> 0, made |-> triple.made]

\* A node of M slots, the first k of them filled by add_neighbor calls made
\* one after the other before the threads start; no call running.
NbrInit ==
    /\ \E M \in 1 .. MaxCells : \E k \in 0 .. M : \E before \in [1 .. k -> Sims] :
          /\ cells = [i \in 0 .. (M - 1) |->
                         IF i < k THEN [addr |-> i + 1, stamp |-> 1] ELSE EmptyCell]
          /\ triples = [a \in Addrs |->
                           IF a <= k THEN [live |-> TRUE, value |-> before[a], made |-> 1]
                           ELSE [live |-> FALSE, value |-> 0, made |-> 0]]
          /\ given = [before |-> before, during |-> <<>>]
    /\ callers = [t \in Callers |-> [pc |-> "idle"]]
    /\ marks = {}

\* The swap goes through whatever the slot holds.
CasBlind(current, expected) == TRUE

\* compare-and-swap: the pointer in the slot is the one expected.
CasSucceeds(current, expected) == current = expected

\* The call begins: Box::new((id, node, dist)) at an address the allocator
\* has free, one it has handed out before included.
NbrStart ==
    /\ Len(given.during) < MaxNbrCalls
    /\ \E t \in Callers : \E v \in Sims : \E a \in Addrs :
          /\ callers[t].pc = "idle"
          /\ ~triples[a].live
          /\ triples' = [triples EXCEPT ![a] = [live |-> TRUE, value |-> v,
                                                made |-> @.made + 1]]
          /\ callers' = [callers EXCEPT ![t] = [pc |-> "empty", new |-> a, value |-> v]]
          /\ given' = [given EXCEPT !.during = Append(@, v)]
    /\ UNCHANGED <<cells, marks, notNbrVars>>

\* Step 1: if a slot is empty, the first empty slot goes from null to the
\* new triple and the call returns; else the scan for the worst begins.
\* (Slots never go back to null, so the search and the compare-and-swap
\* are taken as one step: a swap that failed would search again.)
NbrTryEmpty ==
    /\ \E t \in Callers :
          /\ callers[t].pc = "empty"
          /\ IF \E i \in DOMAIN cells : cells[i].addr = Null
             THEN LET i == CHOOSE j \in DOMAIN cells :
                              /\ cells[j].addr = Null
                              /\ \A k \in DOMAIN cells : k < j => cells[k].addr # Null
                  IN /\ cells' = [cells EXCEPT ![i] = [addr |-> callers[t].new,
                                                       stamp |-> cells[i].stamp + 1]]
                     /\ callers' = [callers EXCEPT ![t] = [pc |-> "idle"]]
             ELSE /\ callers' = [callers EXCEPT ![t] =
                                    [pc |-> "load", new |-> callers[t].new,
                                     value |-> callers[t].value, i |-> 0,
                                     worst |-> Null, seen |-> Null, stamp |-> 0,
                                     dist |-> 0, ptr |-> Null, ptrStamp |-> 0,
                                     ptrMade |-> 0]]
                  /\ UNCHANGED cells
    /\ UNCHANGED <<triples, given, marks, notNbrVars>>

\* Step 2, one slot: the pointer of slot i is loaded.
NbrLoad ==
    /\ \E t \in Callers :
          /\ callers[t].pc = "load"
          /\ callers' = [callers EXCEPT ![t] =
                            [@ EXCEPT !.pc = "deref",
                                      !.ptr = cells[callers[t].i].addr,
                                      !.ptrStamp = cells[callers[t].i].stamp,
                                      !.ptrMade = triples[cells[callers[t].i].addr].made]]
    /\ UNCHANGED <<cells, triples, given, marks, notNbrVars>>

\* The candidate after the distance d of slot i was read: the first of the
\* worst so far.
NextWorst(me, d) ==
    IF me.worst = Null \/ Better(CosineResult(me.dist), CosineResult(d))
    THEN [me EXCEPT !.worst = me.i, !.seen = me.ptr, !.stamp = me.ptrStamp, !.dist = d]
    ELSE me

\* The triple the pointer was loaded for is still at its address.
StillThere(me) == triples[me.ptr].live /\ triples[me.ptr].made = me.ptrMade

\* Step 2, one slot: the distance is read through the pointer loaded. A
\* triple freed in between is read after its free, whether or not another
\* triple was allocated at its address since: any distance may be read.
NbrDeref ==
    /\ \E t \in Callers :
          /\ callers[t].pc = "deref"
          /\ \E d \in Sims :
                /\ StillThere(callers[t]) => d = triples[callers[t].ptr].value
                /\ LET me == NextWorst(callers[t], d)
                       done == me.i + 1 = Cardinality(DOMAIN cells)
                   IN callers' = [callers EXCEPT ![t] =
                                     [pc |-> IF done THEN "cas" ELSE "load",
                                      new |-> me.new, value |-> me.value,
                                      i |-> IF done THEN 0 ELSE me.i + 1,
                                      worst |-> me.worst, seen |-> me.seen,
                                      stamp |-> me.stamp, dist |-> me.dist,
                                      ptr |-> Null, ptrStamp |-> 0, ptrMade |-> 0]]
          /\ marks' = IF StillThere(callers[t]) THEN marks
                      ELSE marks \cup {"read_freed"}
    /\ UNCHANGED <<cells, triples, given, notNbrVars>>

\* Step 3: a new triple that is not better is dropped and the call returns;
\* a better one is swapped in if the slot still holds the pointer read; if
\* it does not, the call starts again from step 1.
NbrCas ==
    /\ \E t \in Callers :
          /\ callers[t].pc = "cas"
          /\ LET me == callers[t] IN
             IF ~Replaces(CosineResult(me.value), CosineResult(me.dist))
             THEN /\ triples' = [triples EXCEPT ![me.new] = Freed(@)]
                  /\ callers' = [callers EXCEPT ![t] = [pc |-> "idle"]]
                  /\ UNCHANGED <<cells, marks>>
             ELSE IF CasSucceeds(cells[me.worst].addr, me.seen)
             THEN /\ cells' = [cells EXCEPT ![me.worst] =
                                  [addr |-> me.new, stamp |-> cells[me.worst].stamp + 1]]
                  /\ callers' = [callers EXCEPT ![t] = [pc |-> "free", old |-> me.seen]]
                  /\ marks' = IF cells[me.worst].stamp = me.stamp THEN marks
                              ELSE marks \cup {"stale_install"}
                  /\ UNCHANGED triples
             ELSE /\ callers' = [callers EXCEPT ![t] =
                                    [pc |-> "empty", new |-> me.new, value |-> me.value]]
                  /\ UNCHANGED <<cells, triples, marks>>
    /\ UNCHANGED <<given, notNbrVars>>

\* The displaced triple is freed, and the call returns.
NbrFree ==
    /\ \E t \in Callers :
          /\ callers[t].pc = "free"
          /\ triples' = [triples EXCEPT ![callers[t].old] = Freed(@)]
          /\ marks' = IF triples[callers[t].old].live
                         /\ \A i \in DOMAIN cells : cells[i].addr # callers[t].old
                      THEN marks
                      ELSE marks \cup {"bad_free"}
          /\ callers' = [callers EXCEPT ![t] = [pc |-> "idle"]]
    /\ UNCHANGED <<cells, given, notNbrVars>>

NbrNext == NbrStart \/ NbrTryEmpty \/ NbrLoad \/ NbrDeref \/ NbrCas \/ NbrFree

NbrSpecInit ==
    /\ ChainIdle /\ PowIdle /\ ThreadsIdle /\ LazyIdle /\ GraphIdle
    /\ NodeIdle /\ DtoIdle /\ QueryIdle /\ RaceIdle /\ BoxIdle /\ NbrInit /\ CacheIdle /\ BootIdle

NbrSpec == NbrSpecInit /\ [][NbrNext]_vars

\* The occupied slots.
OccupiedCells == {i \in DOMAIN cells : cells[i].addr # Null}

\* Of the similarities given, and of those in the slots, how many are v or
\* better.
GivenAtLeast(v) ==
    Cardinality({k \in DOMAIN given.before : given.before[k] >= v})
        + Cardinality({k \in DOMAIN given.during : given.during[k] >= v})

HeldAtLeast(v) == Cardinality({i \in OccupiedCells : triples[cells[i].addr].value >= v})

\* The slots hold the M best of all given, or all of them.
HoldsTheBest ==
    \A v \in Sims : HeldAtLeast(v) = Min(Cardinality(DOMAIN cells), GivenAtLeast(v))

\* Every triple allocated is in one slot or was freed.
NothingLeaked ==
    /\ \A a \in Addrs : triples[a].live <=> \E i \in OccupiedCells : cells[i].addr = a
    /\ \A i, j \in OccupiedCells : cells[i].addr = cells[j].addr => i = j

C33_LengthMismatchDecodes ==
    (/\ SparseRequest
     /\ Times("id") = 1 /\ Times("values") = 1 /\ Times("indices") = 1
     /\ Len(LastValue(request, "values").array)
           # Len(LastValue(request, "indices").array))
    => /\ decoded.result.kind = "Ok"
       /\ Len(decoded.result.dto.values) =
             Min(Len(LastValue(request, "values").array),
                 Len(LastValue(request, "indices").array))
       /\ \A j \in 1 .. Len(decoded.result.dto.values) :
             decoded.result.dto.values[j] =
                 <<LastValue(request, "indices").array[j],
                   LastValue(request, "values").array[j]>>

\* Two values against one index, read as a CreateVectorDto: one pair, the
\* second value dropped.
C33_Witness ==
    /\ SparseRequest
    /\ decoded.via = "CreateVectorDto"
    /\ Times("id") = 1 /\ Times("values") = 1 /\ Times("indices") = 1
    /\ LastValue(request, "values").array = <<50, 25>>
    /\ LastValue(request, "indices").array = <<5>>
    /\ decoded.result.kind = "Ok"
    /\ decoded.result.dto.values = <<(<<5, 50>>)>>

\* ------------------------------------------------------------------------
\* A batch with a failing query.

\* The queries of the batch that fail.
Failing == {j \in 1 .. Len(queries) : queries[j].fault # "none"}

\* C34. A batch fails as a whole: when a query of the batch fails, the
\* batch, in whatever order its tasks end, returns the Err of a failing
\* query and no result list, those of the queries that succeeded included.
C34_BatchFailsAsAWhole ==
    (/\ answer # NoAnswer
     /\ answer.call = "batch_ann_vector_query"
     /\ answer.result.kind # "Panic"
     /\ Failing # {})
    => /\ answer.result.kind = "Err"
       /\ \E j \in Failing :
             answer.result = run_query(queries[j], query_filter_dims(collection).dims)
       /\ answer.result \in {[kind |-> "Err", error |-> e] : e \in {"quantization", "search"}}

\* A batch of three whose second query fails in the search: the tasks of
\* the two others ended first, with results, and the batch returned the
\* error.
C34_Witness ==
    /\ answer # NoAnswer
    /\ answer.call = "batch_ann_vector_query"
    /\ Len(queries) = 3
    /\ Failing = {2}
    /\ Len(finished) = 3
    /\ finished[1].result.kind = "Ok"
    /\ finished[2].result.kind = "Ok"
    /\ finished[3].index = 2
    /\ answer.result = [kind |-> "Err", error |-> "search"]

\* ------------------------------------------------------------------------
\* HNSWIndexCache::get_object called by several threads (the HNSW Cache: a
\* concurrent map from file locator to lazy item, a lock per shard of
\* locators), as try_get_data calls it for a Pending handle
\* (lazy_item.rs 205-214), a step of one thread at a time. Nothing is
\* evicted while the index is open.

\* Threads resolving locators.
MaxGetters == 2

\* Deserializations of one record in a run.
MaxLoads == 2

Getters == 1 .. MaxGetters

\* The file locators asked for, by offset.
Locators == {0, 1, 2}

\* The shards of the cache locks.
Shards == {0, 1}

\* The lock of a locator: sharded by offset.
ShardOf(locator) == locator % Cardinality(Shards)

\* No thread holds the lock.
Unlocked == 0

\* The lazy item made by the n-th deserialization of a locator's record.
ItemOf(locator, n) == [kind |-> "Ok", locator |-> locator, made |-> n]

\* The map has no item for a locator.
NoItem == [kind |-> "none"]

\* The record could not be read.
BufIoError == [kind |-> "BufIoError"]

\* An empty cache, no thread in it.
CacheInit ==
    /\ cache_map = [l \in Locators |-> NoItem]
    /\ shard_locks = [s \in Shards |-> Unlocked]
    /\ getters = [t \in Getters |-> [pc |-> "idle"]]
    /\ deserialized = [l \in Locators |-> 0]
    /\ handed = {}

\* The locator is not looked up again under the lock.
StillAbsentUnchecked(entry) == TRUE

\* The re-check under the lock: the map has no item for the locator.
StillAbsent(entry) == entry = NoItem

\* ProbLazyItemState::Pending(file_index) =>
\*     cache.get_object(*file_index, self.is_level_0)   (lines 209-210)
GetObject ==
    /\ \E t \in Getters : \E l \in Locators :
          /\ getters[t].pc = "idle"
          /\ getters' = [getters EXCEPT ![t] = [pc |-> "lookup", locator |-> l]]
    /\ UNCHANGED <<cache_map, shard_locks, deserialized, handed, notCacheVars>>

\* What the call of a thread returns: taken by the caller, which goes on
\* with try_get_data on the item.
Hand(t, result) ==
    handed \cup {[locator |-> getters[t].locator, result |-> result]}

\* Step 1: look up; if present, return the cached pointer.
GetLookup ==
    /\ \E t \in Getters :
          /\ getters[t].pc = "lookup"
          /\ LET l == getters[t].locator IN
             IF cache_map[l] # NoItem
             THEN /\ handed' = Hand(t, cache_map[l])
                  /\ getters' = [getters EXCEPT ![t] = [pc |-> "idle"]]
             ELSE /\ getters' = [getters EXCEPT ![t] = [@ EXCEPT !.pc = "lock"]]
                  /\ UNCHANGED handed
    /\ UNCHANGED <<cache_map, shard_locks, deserialized, notCacheVars>>

\* Step 2: the lock of the locator's shard is acquired.
GetLock ==
    /\ \E t \in Getters :
          /\ getters[t].pc = "lock"
          /\ shard_locks[ShardOf(getters[t].locator)] = Unlocked
          /\ shard_locks' = [shard_locks EXCEPT ![ShardOf(getters[t].locator)] = t]
          /\ getters' = [getters EXCEPT ![t] = [@ EXCEPT !.pc = "locked"]]
    /\ UNCHANGED <<cache_map, deserialized, handed, notCacheVars>>

\* Step 2, under the lock: re-check; if still absent, the record is read
\* through the Buffer Manager, which may fail, and deserialized to a Ready
\* lazy item.
GetLoad ==
    /\ \E t \in Getters :
          /\ getters[t].pc = "locked"
          /\ LET l == getters[t].locator IN
             IF StillAbsent(cache_map[l])
             THEN \/ /\ deserialized[l] < MaxLoads
                     /\ deserialized' = [deserialized EXCEPT ![l] = @ + 1]
                     /\ getters' = [getters EXCEPT ![t] =
                                       [pc |-> "install", locator |-> l, via |-> "load",
                                        result |-> ItemOf(l, deserialized[l] + 1)]]
                  \/ /\ getters' = [getters EXCEPT ![t] =
                                       [pc |-> "unlock", locator |-> l, via |-> "load",
                                        result |-> BufIoError]]
                     /\ UNCHANGED deserialized
             ELSE /\ getters' = [getters EXCEPT ![t] =
                                    [pc |-> "unlock", locator |-> l, via |-> "recheck",
                                     result |-> cache_map[l]]]
                  /\ UNCHANGED deserialized
    /\ UNCHANGED <<cache_map, shard_locks, handed, notCacheVars>>

\* Step 2, under the lock: the item is installed in the map.
GetInstall ==
    /\ \E t \in Getters :
          /\ getters[t].pc = "install"
          /\ cache_map' = [cache_map EXCEPT ![getters[t].locator] = getters[t].result]
          /\ getters' = [getters EXCEPT ![t] = [@ EXCEPT !.pc = "unlock"]]
    /\ UNCHANGED <<shard_locks, deserialized, handed, notCacheVars>>

\* Step 2: the lock is released and the call returns.
GetUnlock ==
    /\ \E t \in Getters :
          /\ getters[t].pc = "unlock"
          /\ shard_locks' = [shard_locks EXCEPT ![ShardOf(getters[t].locator)] = Unlocked]
          /\ handed' = Hand(t, getters[t].result)
          /\ getters' = [getters EXCEPT ![t] = [pc |-> "idle"]]
    /\ UNCHANGED <<cache_map, deserialized, notCacheVars>>

CacheNext == GetObject \/ GetLookup \/ GetLock \/ GetLoad \/ GetInstall \/ GetUnlock

CacheSpecInit ==
    /\ ChainIdle /\ PowIdle /\ ThreadsIdle /\ LazyIdle /\ GraphIdle
    /\ NodeIdle /\ DtoIdle /\ QueryIdle /\ RaceIdle /\ BoxIdle /\ NbrIdle /\ CacheInit /\ BootIdle

CacheSpec == CacheSpecInit /\ [][CacheNext]_vars

\* C31. Cache de-duplication: however the get_object calls of the threads
\* interleave, the record of a locator is deserialized at most once, every
\* call that returns an item for the locator returns the one installed
\* first, and the map holds that item or none for the locator.
C31_CacheDeduplication ==
    \A l \in Locators :
        /\ deserialized[l] <= 1
        /\ cache_map[l] \in {NoItem, ItemOf(l, 1)}
        /\ \A h \in handed :
              h.locator = l /\ h.result.kind = "Ok" => h.result = ItemOf(l, 1)

\* Two threads missed one locator in the lookup: the first has installed
\* the item, returned it and released the lock; the second, which waited
\* for the lock, found the item in the re-check and is about to return it.
C31_Witness ==
    /\ deserialized[1] = 1
    /\ getters[1].pc = "idle"
    /\ getters[2] = [pc |-> "unlock", locator |-> 1, via |-> "recheck",
                     result |-> ItemOf(1, 1)]
    /\ shard_locks[ShardOf(1)] = 2
    /\ handed = {[locator |-> 1, result |-> ItemOf(1, 1)]}

\* ------------------------------------------------------------------------
\* init_hnsw_index_for_collection, from the registration of the index on:
\* the pseudo vector of a collection that has a metadata schema
\* (api_service.rs, lines 154-183). Every statement that ends in `?` either
\* takes effect or makes the call return its error.

\* The largest dimension of a collection.
MaxDims == 3

\* The version hashes there are: the ones a collection starts with and the
\* ones a new transaction gets.
MaxHashes == 3

\* The largest version number of a branch tip or of a transaction.
MaxVersionNumbers == 2

Hashes == 1 .. MaxHashes

VersionNumbers == 0 .. MaxVersionNumbers

\* A u64 as its 16-bit limbs, the least significant first.
U64Limbs == 1 .. (64 \div U16Bits)

\* u64::pow(2, exp): the bit exp set, and 0 once the bit is beyond the width.
u64_pow2(exp) ==
    [i \in U64Limbs |-> IF exp \div U16Bits = i - 1 THEN 2 ^ (exp % U16Bits) ELSE 0]

\* x - 1 on a u64: the borrow runs through the limbs that are 0.
u64_sub1(x) ==
    [i \in U64Limbs |->
        IF \A j \in U64Limbs : j < i => x[j] = 0 THEN (x[i] - 1) % U16Mod ELSE x[i]]

\* let pseudo_vec_id = VectorId(u64::pow(2, 56) - 1);
pseudo_vec_id == u64_sub1(u64_pow2(56))

\* let pseudo_vals: Vec<f32> = vec![1.0; num_dims];  (1 stands for 1.0)
pseudo_vals(num_dims) == [i \in 1 .. num_dims |-> 1]

\* DenseInputEmbedding(pseudo_vec_id, pseudo_vals, None, true)
pseudo_vec(num_dims) ==
    [id |-> pseudo_vec_id, values |-> pseudo_vals(num_dims), metadata |-> "None",
     is_pseudo |-> TRUE]

\* if collection.meta.metadata_schema.is_some()
has_schema(m) == m.metadata_schema # "None"

\* No CollectionTransaction was made.
NoTransaction == [state |-> "none"]

\* The statements from the registration on, in the order of the source.
Statements ==
    <<"insert_hnsw_index", "new", "run_upload", "pre_commit", "current_version",
      "set_branch_version", "update_current_version">>

\* The statements with current_version written before pre_commit.
StatementsWriteFirst ==
    <<"insert_hnsw_index", "new", "run_upload", "current_version", "pre_commit",
      "set_branch_version", "update_current_version">>

Following(order, step) ==
    LET i == CHOOSE k \in DOMAIN order : order[k] = step IN
    IF i = Len(order) THEN "return" ELSE order[i + 1]

StepAfterWriteFirst(step) == Following(StatementsWriteFirst, step)

\* The statement control reaches when a statement has succeeded.
StepAfter(step) == Following(Statements, step)

\* The call goes on after a statement that succeeded, and returns
\* Ok(hnsw_index) after the last.
Proceed(step) ==
    boot' = IF StepAfter(step) = "return"
            THEN [boot EXCEPT !.pc = "return", !.result = "Ok"]
            ELSE [boot EXCEPT !.pc = StepAfter(step)]

\* The `?` of a statement that failed: the call returns the error.
ReturnErr(err) == boot' = [boot EXCEPT !.pc = "return", !.result = err]

\* A collection, with or without a metadata schema, whose three records of
\* the current version agree; the call has built the index and is about to
\* register it.
BootInit ==
    /\ \E schema \in {"None", "Some"} : \E d \in 1 .. MaxDims :
          meta = [metadata_schema |-> schema, dimension |-> d]
    /\ \E h \in Hashes : \E n \in VersionNumbers :
          /\ current_version = h
          /\ main_branch = [version |-> n, hash |-> h]
          /\ persisted_version = h
          /\ boot = [pc |-> "insert_hnsw_index", result |-> "none",
                     entry |-> [current_version |-> h,
                                main_branch |-> [version |-> n, hash |-> h],
                                persisted_version |-> h]]
    /\ collections_map = {}
    /\ transaction = NoTransaction
    /\ uploaded = <<>>
    /\ trace = <<>>

\* ctx.ain_env.collections_map.insert_hnsw_index(&collection, hnsw_index.clone())?;
\* without a metadata schema the call then returns Ok(hnsw_index).
InsertHnswIndex ==
    /\ boot.pc = "insert_hnsw_index"
    /\ \/ /\ collections_map' = collections_map \cup {"hnsw_index"}
          /\ trace' = Append(trace, "insert_hnsw_index")
          /\ IF has_schema(meta)
             THEN Proceed("insert_hnsw_index")
             ELSE boot' = [boot EXCEPT !.pc = "return", !.result = "Ok"]
       \/ /\ ReturnErr("Err")
          /\ UNCHANGED <<collections_map, trace>>
    /\ UNCHANGED <<meta, transaction, uploaded, current_version, main_branch,
                   persisted_version, notBootVars>>

\* let transaction = CollectionTransaction::new(collection.clone())?;
TransactionNew ==
    /\ boot.pc = "new"
    /\ \/ /\ \E id \in Hashes : \E n \in VersionNumbers :
                transaction' = [state |-> "open", id |-> id, version_number |-> n]
          /\ trace' = Append(trace, "new")
          /\ Proceed("new")
       \/ /\ ReturnErr("Err")
          /\ UNCHANGED <<transaction, trace>>
    /\ UNCHANGED <<meta, collections_map, uploaded, current_version, main_branch,
                   persisted_version, notBootVars>>

\* hnsw_index.run_upload(&collection, vec![pseudo_vec], &transaction, &ctx.config)?;
RunUpload ==
    /\ boot.pc = "run_upload"
    /\ \/ /\ uploaded' = Append(uploaded,
                                [transaction |-> transaction.id,
                                 vecs |-> <<pseudo_vec(meta.dimension)>>,
                                 registered |-> collections_map])
          /\ trace' = Append(trace, "run_upload")
          /\ Proceed("run_upload")
       \/ /\ ReturnErr("Err")
          /\ UNCHANGED <<uploaded, trace>>
    /\ UNCHANGED <<meta, collections_map, transaction, current_version, main_branch,
                   persisted_version, notBootVars>>

\* let (id, version_number) = (transaction.id, transaction.version_number);
\* transaction.pre_commit(&collection, &ctx.config)?;
PreCommit ==
    /\ boot.pc = "pre_commit"
    /\ \/ /\ transaction' = [transaction EXCEPT !.state = "pre_committed"]
          /\ trace' = Append(trace, "pre_commit")
          /\ Proceed("pre_commit")
       \/ /\ ReturnErr("Err")
          /\ UNCHANGED <<transaction, trace>>
    /\ UNCHANGED <<meta, collections_map, uploaded, current_version, main_branch,
                   persisted_version, notBootVars>>

\* *collection.current_version.write().unwrap() = id;
\* the unwrap panics when the lock is poisoned.
SetCurrentVersion ==
    /\ boot.pc = "current_version"
    /\ \/ /\ current_version' = transaction.id
          /\ trace' = Append(trace, "current_version")
          /\ Proceed("current_version")
       \/ /\ ReturnErr("panic")
          /\ UNCHANGED <<current_version, trace>>
    /\ UNCHANGED <<meta, collections_map, transaction, uploaded, main_branch,
                   persisted_version, notBootVars>>

\* collection.vcs.set_branch_version("main", version_number.into(), id)?;
SetBranchVersion ==
    /\ boot.pc = "set_branch_version"
    /\ \/ /\ main_branch' = [version |-> transaction.version_number,
                             hash |-> transaction.id]
          /\ trace' = Append(trace, "set_branch_version")
          /\ Proceed("set_branch_version")
       \/ /\ ReturnErr("Err")
          /\ UNCHANGED <<main_branch, trace>>
    /\ UNCHANGED <<meta, collections_map, transaction, uploaded, current_version,
                   persisted_version, notBootVars>>

\* update_current_version(&collection.lmdb, id)?;
UpdateCurrentVersion ==
    /\ boot.pc = "update_current_version"
    /\ \/ /\ persisted_version' = transaction.id
          /\ trace' = Append(trace, "update_current_version")
          /\ Proceed("update_current_version")
       \/ /\ ReturnErr("Err")
          /\ UNCHANGED <<persisted_version, trace>>
    /\ UNCHANGED <<meta, collections_map, transaction, uploaded, current_version,
                   main_branch, notBootVars>>

BootNext ==
    \/ InsertHnswIndex
    \/ TransactionNew
    \/ RunUpload
    \/ PreCommit
    \/ SetCurrentVersion
    \/ SetBranchVersion
    \/ UpdateCurrentVersion

BootSpecInit ==
    /\ ChainIdle /\ PowIdle /\ ThreadsIdle /\ LazyIdle /\ GraphIdle
    /\ NodeIdle /\ DtoIdle /\ QueryIdle /\ RaceIdle /\ BoxIdle /\ NbrIdle /\ CacheIdle
    /\ BootInit

BootSpec == BootSpecInit /\ [][BootNext]_vars

\* The statement took effect in the call.
Did(step) == \E i \in DOMAIN trace : trace[i] = step

\* The u64 whose 56 low bits are set and whose 8 high bits are clear.
TwoTo56Minus1 ==
    [i \in U64Limbs |->
        IF i * U16Bits <= 56 THEN U16Mod - 1 ELSE 2 ^ (56 - (i - 1) * U16Bits) - 1]

\* C32. Pseudo-replica bootstrap order: with a metadata schema, the call
\* uploads exactly one vector (id 2^56 - 1, every component 1.0) in the
\* one transaction it creates, after the index was registered in the
\* collections map; the statements take effect in the order registration,
\* new transaction, upload, pre_commit, current_version, main branch tip,
\* persisted current version, so each of the three is the transaction's id
\* once its statement ran, which is after pre_commit succeeded, and is what
\* it was at entry before that. Without a metadata schema no transaction
\* is created, nothing is uploaded and none of the three changes.
C32_PseudoReplicaBootstrapOrder ==
    LET entry == boot.entry
        order == <<"insert_hnsw_index", "new", "run_upload", "pre_commit",
                   "current_version", "set_branch_version", "update_current_version">>
    IN
    IF has_schema(meta)
    THEN /\ Len(trace) <= Len(order)
         /\ \A i \in DOMAIN trace : trace[i] = order[i]
         /\ Did("new") <=> transaction # NoTransaction
         /\ Did("run_upload") <=> uploaded # <<>>
         /\ uploaded # <<>> =>
               /\ Len(uploaded) = 1
               /\ uploaded[1].transaction = transaction.id
               /\ uploaded[1].registered = {"hnsw_index"}
               /\ Len(uploaded[1].vecs) = 1
               /\ uploaded[1].vecs[1].id = TwoTo56Minus1
               /\ Len(uploaded[1].vecs[1].values) = meta.dimension
               /\ \A k \in DOMAIN uploaded[1].vecs[1].values :
                     uploaded[1].vecs[1].values[k] = 1
         /\ Did("current_version") => transaction.state = "pre_committed"
         /\ current_version =
               IF Did("current_version") THEN transaction.id ELSE entry.current_version
         /\ main_branch =
               IF Did("set_branch_version")
               THEN [version |-> transaction.version_number, hash |-> transaction.id]
               ELSE entry.main_branch
         /\ persisted_version =
               IF Did("update_current_version")
               THEN transaction.id
               ELSE entry.persisted_version
    ELSE /\ transaction = NoTransaction
         /\ uploaded = <<>>
         /\ current_version = entry.current_version
         /\ main_branch = entry.main_branch
         /\ persisted_version = entry.persisted_version
         /\ \A i \in DOMAIN trace : trace[i] = "insert_hnsw_index"

\* A collection with a metadata schema and dimension 3 whose call returned
\* Ok: the pseudo vector was uploaded in a transaction whose id differs from
\* the version at entry, and the three records now hold that id.
C32_Witness ==
    /\ has_schema(meta)
    /\ meta.dimension = 3
    /\ boot.pc = "return"
    /\ boot.result = "Ok"
    /\ Len(uploaded) = 1
    /\ uploaded[1].vecs = <<[id |-> <<65535, 65535, 65535, 255>>,
                             values |-> <<1, 1, 1>>, metadata |-> "None",
                             is_pseudo |-> TRUE]>>
    /\ transaction.state = "pre_committed"
    /\ transaction.id # boot.entry.current_version
    /\ current_version = transaction.id
    /\ main_branch.hash = transaction.id
    /\ persisted_version = transaction.id

====
